---- MODULE Spec2Model ----
(***************************************************************************)
(* Model of the gestion_saas identity broker: the relational store         *)
(* (projects, tenants, users, memberships, invitations), the membership /  *)
(* invitation engine (app/services/membership.py, app/admin/routes.py) and *)
(* the authentication service (app/services/auth.py) with the token codec  *)
(* (app/core/security.py).                                                 *)
(*                                                                         *)
(* A request is handled in a slot r.  A handler that reads, decides and    *)
(* then writes is split at its commit: the "Begin" step runs the handler's *)
(* SELECTs and checks, the "Commit" step is db.commit(), where the store   *)
(* enforces its unique and foreign-key constraints and either applies all  *)
(* pending writes of the session or raises and rolls them back.  Read-only *)
(* handlers and read-modify-write handlers without a uniqueness check run  *)
(* in one step.  A finished request stays in "done" with its response      *)
(* until the client takes it (Return).                                     *)
(*                                                                         *)
(* Time is counted in minutes.                                             *)
(***************************************************************************)
EXTENDS Integers, Sequences, FiniteSets, TLC

\* ---------------------------------------------------------------- bounds
MaxUsers == 2
MaxMemberships == 2
MaxInvitations == 2
MaxTicks == 2
MaxTokens == 1
MaxGenerated == 2
MaxTenants == 3

\* ------------------------------------------------------ program constants
BcryptMaxBytes == 72
RefreshTokenDays == 7
AccessTokenExpireMinutes == 30
MinutesPerHour == 60
MinutesPerDay == 1440

\* SQL NULL / Python None for a DateTime column
NULL == -1

\* Python None (and the empty string: `not x` holds for both) for str | None
NoStr == <<>>

VARIABLES
    now,          \* datetime.utcnow(), in minutes
    ticks,        \* number of clock advances so far (bounds the clock)
    projects,     \* table projects: set of rows
    tenants,      \* table tenants
    users,        \* table users
    memberships,  \* table memberships
    invitations,  \* table invitations
    seq,          \* fresh-id sources (uuid4 / secrets.token_urlsafe), one per table
    schemas,      \* PostgreSQL schemas of the database
    tokens,       \* token pairs and credentials in clients' hands
    pc,           \* per request slot: "idle", "commit", "done"
    loc           \* per request slot: handler, arguments, locals, response

vars == <<now, ticks, projects, tenants, users, memberships, invitations, seq, schemas,
          tokens, pc, loc>>

store == <<projects, tenants, users, memberships, invitations, seq, schemas>>

Slots == {1, 2}

\* ------------------------------------------------------------- strings
\* Strings that the code inspects character by character (emails, passwords)
\* are sequences of one-character strings.

LowerChar(c) ==
    CASE c = "A" -> "a"
      [] c = "B" -> "b"
      [] c = "C" -> "c"
      [] c = "D" -> "d"
      [] OTHER -> c

\* str.lower()
Lower(s) == [i \in 1..Len(s) |-> LowerChar(s[i])]

RECURSIVE LikeMatch(_, _)
\* PostgreSQL  value ILIKE pattern : case-insensitive, "_" matches any one
\* character and "%" any run of characters of the pattern side.
LikeMatch(v, p) ==
    IF p = <<>> THEN v = <<>>
    ELSE IF Head(p) = "%"
         THEN LikeMatch(v, Tail(p)) \/ (v # <<>> /\ LikeMatch(Tail(v), p))
         ELSE /\ v # <<>>
              /\ (Head(p) = "_" \/ LowerChar(Head(v)) = LowerChar(Head(p)))
              /\ LikeMatch(Tail(v), Tail(p))

ILike(value, pattern) == LikeMatch(value, pattern)

\* slugify(text) of python-slugify: lower-cases, turns every run of
\* characters other than letters and digits into one "-", and strips "-"
\* from both ends.
SlugChar(c) == IF c \in {" ", "-", "_", "."} THEN "-" ELSE LowerChar(c)

RECURSIVE SlugFrom(_, _, _)
SlugFrom(text, i, acc) ==
    IF i > Len(text) THEN acc
    ELSE LET c == SlugChar(text[i])
         IN  IF c = "-" /\ (acc = <<>> \/ acc[Len(acc)] = "-")
             THEN SlugFrom(text, i + 1, acc)
             ELSE SlugFrom(text, i + 1, Append(acc, c))

slugify(text) ==
    LET s == SlugFrom(text, 1, <<>>)
    IN  IF s # <<>> /\ s[Len(s)] = "-" THEN SubSeq(s, 1, Len(s) - 1) ELSE s

\* str.strip()
Strip(s) ==
    LET kept == {i \in 1..Len(s) : s[i] # " "}
    IN  IF kept = {} THEN <<>>
        ELSE SubSeq(s, CHOOSE i \in kept : \A j \in kept : i <= j,
                       CHOOSE i \in kept : \A j \in kept : j <= i)

\* str.replace(old, new)
Replace(s, old, new) == [i \in 1..Len(s) |-> IF s[i] = old THEN new ELSE s[i]]

\* f"tenant_{project.slug}_{slug}".replace("-", "_")
SchemaName(project_slug, slug) ==
    Replace(<<"tenant_">> \o project_slug \o <<"_">> \o slug, "-", "_")

\* ------------------------------------------------------ security.py
Take(s, n) == SubSeq(s, 1, IF Len(s) < n THEN Len(s) ELSE n)

\* bcrypt.hashpw(password.encode()[:72], salt): the digest depends on the
\* first 72 bytes only; the random salt does not affect verification.
hash_password(password) == [scheme |-> "bcrypt", of |-> Take(password, BcryptMaxBytes)]

verify_password(plain_password, hashed_password) ==
    hashed_password = [scheme |-> "bcrypt", of |-> Take(plain_password, BcryptMaxBytes)]

\* hashlib.sha256(secret).hexdigest()
hash_secret(secret) == [scheme |-> "sha256", of |-> secret]

verify_secret(secret, hashed_secret) == hash_secret(secret) = hashed_secret

verify_api_key(api_key, api_key_hash) == verify_secret(api_key, api_key_hash)

\* ------------------------------------------------------------ responses
Ok == [status |-> "ok", detail |-> ""]
NotFoundError(msg) == [status |-> "NotFoundError", detail |-> msg]
BadRequestError(msg) == [status |-> "BadRequestError", detail |-> msg]
UnauthorizedError(msg) == [status |-> "UnauthorizedError", detail |-> msg]
\* RedirectResponse of the admin panel
Redirect == [status |-> "redirect", detail |-> ""]
\* exceptions of the store / ORM that no handler catches
IntegrityError == [status |-> "IntegrityError", detail |-> ""]
MultipleResultsFound == [status |-> "MultipleResultsFound", detail |-> ""]
StaleDataError == [status |-> "StaleDataError", detail |-> ""]

IdleLoc == [op |-> "idle"]

\* ---------------------------------------------------------------- queries
\* Result.scalar_one_or_none(): the row, None, or MultipleResultsFound.
\* A query result is the set of matching rows.
IsNone(rows) == rows = {}
IsMany(rows) == Cardinality(rows) > 1
The(rows) == CHOOSE x \in rows : TRUE

\* select(User).where(User.email.ilike(email))
UsersByEmail(email) == {u \in users : ILike(u.email, email)}

\* select(User).where(User.id == user_id)
UsersById(user_id) == {u \in users : u.id = user_id}

\* select(Tenant).where(Tenant.id == tenant_id)
TenantsById(tenant_id) == {t \in tenants : t.id = tenant_id}

\* select(Project).where(Project.id == project_id)
ProjectsById(project_id) == {p \in projects : p.id = project_id}

\* select(Membership).where(user_id == ..., tenant_id == ...)
get_by_user_and_tenant(user_id, tenant_id) ==
    {m \in memberships : m.user_id = user_id /\ m.tenant_id = tenant_id}

\* select(Membership).where(Membership.id == membership_id)
MembershipsById(membership_id) == {m \in memberships : m.id = membership_id}

\* select(Invitation).where(Invitation.token == token)
get_invitation_by_token(token) == {i \in invitations : i.token = token}

\* select(Invitation).where(Invitation.id == invitation_id)
get_invitation_by_id(invitation_id) == {i \in invitations : i.id = invitation_id}

\* select(Invitation).where(email == email.lower(), tenant_id == ..., used_at IS NULL)
get_pending_invitation(email, tenant_id) ==
    {i \in invitations : /\ i.email = Lower(email)
                         /\ i.tenant_id = tenant_id
                         /\ i.used_at = NULL}

\* Invitation.is_expired / is_used / is_valid
is_expired_Inverted(invitation) == now < invitation.expires_at

is_expired(invitation) == now > invitation.expires_at
is_used(invitation) == invitation.used_at # NULL
is_valid(invitation) == ~is_expired(invitation) /\ ~is_used(invitation)

\* ------------------------------------------------------ store constraints
\* users.email UNIQUE (migration 003)
UserEmailFree(email) == \A u \in users : u.email # email

\* uq_membership_user_tenant
MembershipPairFree_NoConstraint(user_id, tenant_id) == TRUE

MembershipPairFree(user_id, tenant_id) ==
    \A m \in memberships : ~(m.user_id = user_id /\ m.tenant_id = tenant_id)

\* ForeignKey("users.id") / ForeignKey("tenants.id")
UserExists(user_id) == \E u \in users : u.id = user_id
TenantExists(tenant_id) == \E t \in tenants : t.id = tenant_id

\* ------------------------------------------------------------------ Init
\* Two projects made in the admin panel (create_project), each with one
\* tenant (create_tenant); no users, memberships or invitations yet.
InitProjects ==
    { [id |-> 1, slug |-> <<"p", "1">>, tenant_strategy |-> "schema",
       is_active |-> TRUE, api_key_hash |-> hash_secret(<<"k", "1">>),
       client_id |-> <<"c", "1">>, client_secret_hash |-> hash_secret(<<"x", "1">>),
       jwt_secret |-> <<"s", "1">>, jwt_algorithm |-> "HS256", jwt_expiration_minutes |-> 30],
      [id |-> 2, slug |-> <<"p", "2">>, tenant_strategy |-> "discriminator",
       is_active |-> TRUE, api_key_hash |-> hash_secret(<<"k", "2">>),
       client_id |-> <<"c", "2">>, client_secret_hash |-> hash_secret(<<"x", "2">>),
       jwt_secret |-> <<"s", "2">>, jwt_algorithm |-> "HS256", jwt_expiration_minutes |-> 30],
      [id |-> 3, slug |-> <<"p", "3">>, tenant_strategy |-> "schema",
       is_active |-> TRUE, api_key_hash |-> hash_secret(<<"k", "3">>),
       client_id |-> <<"c", "3">>, client_secret_hash |-> hash_secret(<<"x", "3">>),
       jwt_secret |-> <<"s", "3">>, jwt_algorithm |-> "HS256", jwt_expiration_minutes |-> 30] }

InitTenants ==
    { [id |-> 1, project_id |-> 1, name |-> <<"A", "c">>, slug |-> <<"a", "c">>,
       schema_name |-> SchemaName(<<"p", "1">>, <<"a", "c">>), is_active |-> TRUE],
      [id |-> 2, project_id |-> 2, name |-> <<"A", "c">>, slug |-> <<"a", "c">>,
       schema_name |-> NoStr, is_active |-> TRUE] }

Init ==
    /\ now = 0
    /\ ticks = 0
    /\ projects = InitProjects
    /\ tenants = InitTenants
    /\ users = {}
    /\ memberships = {}
    /\ invitations = {}
    /\ seq = [user |-> 0, membership |-> 0, invitation |-> 0,
              project |-> Cardinality(InitProjects), tenant |-> Cardinality(InitTenants),
              generated |-> 0]
    /\ schemas = {t.schema_name : t \in {x \in InitTenants : x.schema_name # NoStr}}
    /\ tokens = {}
    /\ pc = [r \in Slots |-> "idle"]
    /\ loc = [r \in Slots |-> IdleLoc]

\* ----------------------------------------------------------- slot helpers
Finish(r, l, resp) ==
    /\ pc' = [pc EXCEPT ![r] = "done"]
    /\ loc' = [loc EXCEPT ![r] = [l EXCEPT !.resp = resp]]

ToCommit(r, l) ==
    /\ pc' = [pc EXCEPT ![r] = "commit"]
    /\ loc' = [loc EXCEPT ![r] = l]

\* the client takes the response; the session is closed (get_db)
Return(r) ==
    /\ pc[r] = "done"
    /\ pc' = [pc EXCEPT ![r] = "idle"]
    /\ loc' = [loc EXCEPT ![r] = IdleLoc]
    /\ tokens' = IF /\ "out" \in DOMAIN loc[r]
                    /\ loc[r].out # {}
                    /\ Cardinality({t \in tokens : "kind" \notin DOMAIN t}) < MaxTokens
                 THEN tokens \cup {The(loc[r].out)}
                 ELSE IF "credentials" \in DOMAIN loc[r]
                 THEN tokens \cup loc[r].credentials
                 ELSE tokens
    /\ UNCHANGED <<now, ticks, store>>

\* the clock advances by d minutes between requests
Tick(d) ==
    /\ \A r \in Slots : pc[r] = "idle"
    /\ ticks < MaxTicks
    /\ ticks' = ticks + 1
    /\ now' = now + d
    /\ UNCHANGED <<store, tokens, pc, loc>>

\* Rows get their id (uuid4) when they are inserted.
NewUser(u) ==
    [id |-> seq.user + 1, email |-> u.email, password_hash |-> u.password_hash,
     full_name |-> u.full_name, email_verified |-> u.email_verified,
     is_active |-> TRUE]

NewMembership(user_id, tenant_id, roles) ==
    [id |-> seq.membership + 1, user_id |-> user_id, tenant_id |-> tenant_id,
     roles |-> roles, is_active |-> TRUE]

\* Requests that are between their checks and their commit with a row to insert
Pending(kind) ==
    Cardinality({r \in Slots : pc[r] = "commit" /\ kind \in loc[r].inserts})

UserRoom == seq.user + Pending("user") < MaxUsers
MembershipRoom == seq.membership + Pending("membership") < MaxMemberships
InvitationRoom == seq.invitation + Pending("invitation") < MaxInvitations

\* ------------------------------------------------- AuthService.register
RegisterBegin(r, email, password, full_name) ==
    /\ pc[r] = "idle"
    /\ LET existing == UsersByEmail(email)
           l == [op |-> "register", email |-> email, resp |-> Ok,
                 inserts |-> {"user"},
                 new_user |-> [email |-> Lower(email),
                               password_hash |-> hash_password(password),
                               full_name |-> full_name,
                               email_verified |-> TRUE,
                               is_active |-> TRUE]]
       IN  IF IsMany(existing) THEN Finish(r, l, MultipleResultsFound)
           ELSE IF ~IsNone(existing)
                THEN Finish(r, l, BadRequestError("Email already registered"))
                ELSE UserRoom /\ ToCommit(r, l)
    /\ UNCHANGED <<now, ticks, store, tokens>>

RegisterCommit(r) ==
    /\ pc[r] = "commit"
    /\ loc[r].op = "register"
    /\ IF UserEmailFree(loc[r].new_user.email)
       THEN /\ users' = users \cup {NewUser(loc[r].new_user)}
            /\ seq' = [seq EXCEPT !.user = @ + 1]
            /\ Finish(r, loc[r], Ok)
       ELSE /\ UNCHANGED <<users, seq>>
            /\ Finish(r, loc[r], IntegrityError)
    /\ UNCHANGED <<now, ticks, projects, tenants, memberships, invitations, tokens, schemas>>

\* --------------------------------------------- MembershipService.create
MembershipCreateBegin(r, user_id, tenant_id, roles) ==
    /\ pc[r] = "idle"
    /\ LET existing == get_by_user_and_tenant(user_id, tenant_id)
           l == [op |-> "membership_create", user_id |-> user_id,
                 tenant_id |-> tenant_id, roles |-> roles,
                 existing |-> existing, inserts |-> {"membership"}, resp |-> Ok]
       IN  IF ~IsNone(existing)
           THEN Finish(r, l, BadRequestError("User is already a member of this tenant"))
           ELSE IF IsNone(UsersById(user_id))
                THEN Finish(r, l, NotFoundError("User not found"))
                ELSE IF IsNone(TenantsById(tenant_id))
                     THEN Finish(r, l, NotFoundError("Tenant not found"))
                     ELSE MembershipRoom /\ ToCommit(r, l)
    /\ UNCHANGED <<now, ticks, store, tokens>>

MembershipCreateCommit(r) ==
    /\ pc[r] = "commit"
    /\ loc[r].op = "membership_create"
    /\ IF /\ MembershipPairFree(loc[r].user_id, loc[r].tenant_id)
          /\ UserExists(loc[r].user_id)
          /\ TenantExists(loc[r].tenant_id)
       THEN /\ memberships' = memberships \cup
                   {NewMembership(loc[r].user_id, loc[r].tenant_id, loc[r].roles)}
            /\ seq' = [seq EXCEPT !.membership = @ + 1]
            /\ Finish(r, loc[r], Ok)
       ELSE /\ UNCHANGED <<memberships, seq>>
            /\ Finish(r, loc[r], IntegrityError)
    /\ UNCHANGED <<now, ticks, projects, tenants, users, invitations, tokens, schemas>>

\* --------------------------------------------- MembershipService.update
\* data.model_dump(exclude_unset=True): a field is present or absent; an
\* absent field is the empty set, a present one the singleton of its value.
MembershipUpdate(r, membership_id, roles, is_active) ==
    /\ pc[r] = "idle"
    /\ LET found == MembershipsById(membership_id)
           l == [op |-> "membership_update", membership_id |-> membership_id,
                 resp |-> Ok]
       IN  IF IsNone(found)
           THEN /\ Finish(r, l, NotFoundError("Membership not found"))
                /\ UNCHANGED memberships
           ELSE LET m == The(found)
                    m2 == [m EXCEPT
                             !.roles = IF roles = {} THEN @ ELSE The(roles),
                             !.is_active = IF is_active = {} THEN @ ELSE The(is_active)]
                IN  /\ memberships' = (memberships \ {m}) \cup {m2}
                    /\ Finish(r, l, Ok)
    /\ UNCHANGED <<now, ticks, projects, tenants, users, invitations, seq, tokens, schemas>>

\* --------------------------------------------- MembershipService.delete
\* db.delete(membership); db.commit(): table memberships without the row
DeleteMembership_AllOfUser(found) ==
    {m \in memberships : \A f \in found : m.user_id # f.user_id}

DeleteMembership(found) == memberships \ found

MembershipDelete(r, membership_id) ==
    /\ pc[r] = "idle"
    /\ LET found == MembershipsById(membership_id)
           l == [op |-> "membership_delete", membership_id |-> membership_id,
                 resp |-> Ok]
       IN  IF IsNone(found)
           THEN /\ Finish(r, l, NotFoundError("Membership not found"))
                /\ UNCHANGED memberships
           ELSE /\ memberships' = DeleteMembership(found)
                /\ Finish(r, l, Ok)
    /\ UNCHANGED <<now, ticks, projects, tenants, users, invitations, seq, tokens, schemas>>

\* ------- DELETE /projects/{project_id}/tenants/{tenant_id}/members/{user_id}
RemoveMember(r, project_id, tenant_id, user_id) ==
    /\ pc[r] = "idle"
    /\ LET tenant == TenantsById(tenant_id)
           membership == get_by_user_and_tenant(user_id, tenant_id)
           l == [op |-> "remove_member", project_id |-> project_id,
                 tenant_id |-> tenant_id, user_id |-> user_id, resp |-> Ok]
       IN  IF IsNone(tenant) \/ The(tenant).project_id # project_id
           THEN /\ Finish(r, l, NotFoundError("Tenant not found"))
                /\ UNCHANGED memberships
           ELSE IF IsNone(membership)
           THEN /\ Finish(r, l, NotFoundError("Member not found"))
                /\ UNCHANGED memberships
           ELSE /\ memberships' = DeleteMembership(MembershipsById(The(membership).id))
                /\ Finish(r, l, Ok)
    /\ UNCHANGED <<now, ticks, projects, tenants, users, invitations, seq, tokens, schemas>>

\* --- admin panel: POST /panel/{project_id}/tenants/{tenant_id}/members/{user_id}/delete
AdminDeleteMember(r, project_id, tenant_id, user_id) ==
    /\ pc[r] = "idle"
    /\ LET membership == {m \in memberships :
                             m.tenant_id = tenant_id /\ m.user_id = user_id}
           l == [op |-> "admin_delete_member", project_id |-> project_id,
                 tenant_id |-> tenant_id, user_id |-> user_id, resp |-> Ok]
       IN  /\ memberships' = IF IsNone(membership) THEN memberships
                             ELSE DeleteMembership(membership)
           /\ Finish(r, l, Redirect)
    /\ UNCHANGED <<now, ticks, projects, tenants, users, invitations, seq, tokens, schemas>>

\* ------------------------------------ MembershipService.create_invitation
NewInvitation(email, tenant_id, roles, expires_at) ==
    [id |-> seq.invitation + 1, token |-> seq.invitation + 1,
     email |-> email, tenant_id |-> tenant_id, roles |-> roles,
     expires_at |-> expires_at, used_at |-> NULL]

CreateInvitationBegin(r, tenant_id, email, roles, expires_in_hours) ==
    /\ pc[r] = "idle"
    /\ LET user == UsersByEmail(email)
           pending == get_pending_invitation(email, tenant_id)
           l == [op |-> "create_invitation", tenant_id |-> tenant_id,
                 email |-> email, roles |-> roles,
                 expires_at |-> now + expires_in_hours * MinutesPerHour,
                 inserts |-> {"invitation"}, resp |-> Ok]
       IN  IF IsNone(TenantsById(tenant_id))
           THEN Finish(r, l, NotFoundError("Tenant not found"))
           ELSE IF IsMany(user) THEN Finish(r, l, MultipleResultsFound)
           ELSE IF /\ ~IsNone(user)
                   /\ ~IsNone(get_by_user_and_tenant(The(user).id, tenant_id))
                THEN Finish(r, l, BadRequestError("User is already a member of this tenant"))
           ELSE IF IsMany(pending) THEN Finish(r, l, MultipleResultsFound)
           ELSE IF ~IsNone(pending)
                THEN Finish(r, l, BadRequestError("An invitation already exists for this email"))
           ELSE InvitationRoom /\ ToCommit(r, l)
    /\ UNCHANGED <<now, ticks, store, tokens>>

CreateInvitationCommit(r) ==
    /\ pc[r] = "commit"
    /\ loc[r].op = "create_invitation"
    /\ IF TenantExists(loc[r].tenant_id)
       THEN /\ invitations' = invitations \cup
                   {NewInvitation(Lower(loc[r].email), loc[r].tenant_id,
                                  loc[r].roles, loc[r].expires_at)}
            /\ seq' = [seq EXCEPT !.invitation = @ + 1]
            /\ Finish(r, loc[r], Ok)
       ELSE /\ UNCHANGED <<invitations, seq>>
            /\ Finish(r, loc[r], IntegrityError)
    /\ UNCHANGED <<now, ticks, projects, tenants, users, memberships, tokens, schemas>>


\* ------------------------------- admin panel: POST .../tenants/{id}/invite
AdminCreateInvitation(r, project_id, tenant_id, email, roles, expires_hours) ==
    /\ pc[r] = "idle"
    /\ LET tenant == {t \in tenants : t.id = tenant_id /\ t.project_id = project_id}
           l == [op |-> "admin_create_invitation", tenant_id |-> tenant_id,
                 email |-> email, resp |-> Redirect]
       IN  IF IsNone(tenant)
           THEN /\ Finish(r, l, Redirect)
                /\ UNCHANGED <<invitations, seq>>
           ELSE /\ InvitationRoom
                /\ invitations' = invitations \cup
                       {NewInvitation(Lower(email), tenant_id, roles,
                                      now + expires_hours * MinutesPerHour)}
                /\ seq' = [seq EXCEPT !.invitation = @ + 1]
                /\ Finish(r, l, Redirect)
    /\ UNCHANGED <<now, ticks, projects, tenants, users, memberships, tokens, schemas>>

\* ------------------------------------ MembershipService.delete_invitation
DeleteInvitation(r, invitation_id) ==
    /\ pc[r] = "idle"
    /\ LET found == get_invitation_by_id(invitation_id)
           l == [op |-> "delete_invitation", invitation_id |-> invitation_id,
                 resp |-> Ok]
       IN  IF IsNone(found)
           THEN /\ Finish(r, l, NotFoundError("Invitation not found"))
                /\ UNCHANGED invitations
           ELSE /\ invitations' = invitations \ found
                /\ Finish(r, l, Ok)
    /\ UNCHANGED <<now, ticks, projects, tenants, users, memberships, seq, tokens, schemas>>

\* ------------------------------------ MembershipService.accept_invitation
AcceptInvitationBegin(r, token, password, full_name) ==
    /\ pc[r] = "idle"
    /\ LET found == get_invitation_by_token(token)
           l0 == [op |-> "accept_invitation", token |-> token,
                  password |-> password, full_name |-> full_name,
                  invitation |-> found, user |-> {}, new_user |-> {},
                  inserts |-> {}, resp |-> Ok]
       IN  IF IsNone(found)
           THEN Finish(r, l0, NotFoundError("Invitation not found"))
           ELSE IF is_used(The(found))
           THEN Finish(r, l0, BadRequestError("Invitation has already been used"))
           ELSE IF is_expired(The(found))
           THEN Finish(r, l0, BadRequestError("Invitation has expired"))
           ELSE LET invitation == The(found)
                    user == UsersByEmail(invitation.email)
                IN  IF IsMany(user) THEN Finish(r, l0, MultipleResultsFound)
                    ELSE IF ~IsNone(user)
                    THEN /\ MembershipRoom
                         /\ ToCommit(r, [l0 EXCEPT !.user = user,
                                                   !.inserts = {"membership"}])
                    ELSE IF password = NoStr
                    THEN Finish(r, l0, BadRequestError("Password is required for new users"))
                    ELSE IF full_name = NoStr
                    THEN Finish(r, l0, BadRequestError("Full name is required for new users"))
                    ELSE /\ MembershipRoom
                         /\ UserRoom
                         /\ ToCommit(r, [l0 EXCEPT
                                 !.new_user = {[email |-> invitation.email,
                                                password_hash |-> hash_password(password),
                                                full_name |-> full_name,
                                                email_verified |-> TRUE]},
                                 !.inserts = {"user", "membership"}])
    /\ UNCHANGED <<now, ticks, store, tokens>>

\* get_db closes the session when the handler raises: what the session
\* flushed but did not commit is rolled back.
RolledBackUsers_FlushPersists(flushed) ==
    users \cup {NewUser(u) : u \in flushed}

RolledBackUsers(flushed) == users

\* table users after an acceptance by an existing user: accept_invitation
\* assigns no attribute of the user it found, whatever password and full_name
\* the call carries
ReusedUsers_PasswordReset(l) ==
    (users \ l.user) \cup
        {[The(l.user) EXCEPT !.password_hash =
              IF l.password = NoStr THEN @ ELSE hash_password(l.password)]}

ReusedUsers(l) == users

\* db.flush() / db.commit(): the INSERT of the user, the INSERT of the
\* membership and the UPDATE of the invitation belong to one transaction.
AcceptInvitationCommit(r) ==
    /\ pc[r] = "commit"
    /\ loc[r].op = "accept_invitation"
    /\ LET l == loc[r]
           invitation == The(l.invitation)
           creates == l.new_user # {}
           user_id == IF creates THEN seq.user + 1 ELSE The(l.user).id
           user_ok == IF creates THEN UserEmailFree(The(l.new_user).email)
                                 ELSE UserExists(user_id)
           membership_ok == /\ MembershipPairFree(user_id, invitation.tenant_id)
                            /\ TenantExists(invitation.tenant_id)
           current == get_invitation_by_id(invitation.id)
       IN  IF ~user_ok
           THEN /\ Finish(r, l, IntegrityError)
                /\ UNCHANGED <<users, memberships, invitations, seq>>
           ELSE IF ~membership_ok
           THEN /\ Finish(r, l, IntegrityError)
                /\ users' = RolledBackUsers(l.new_user)
                /\ UNCHANGED <<memberships, invitations, seq>>
           ELSE IF IsNone(current)
           THEN /\ Finish(r, l, StaleDataError)
                /\ users' = RolledBackUsers(l.new_user)
                /\ UNCHANGED <<memberships, invitations, seq>>
           ELSE /\ users' = IF creates THEN users \cup {NewUser(The(l.new_user))}
                                       ELSE ReusedUsers(l)
                /\ memberships' = memberships \cup
                       {NewMembership(user_id, invitation.tenant_id, invitation.roles)}
                /\ invitations' = (invitations \ current) \cup
                       {[The(current) EXCEPT !.used_at = now]}
                /\ seq' = [seq EXCEPT !.user = IF creates THEN @ + 1 ELSE @,
                                      !.membership = @ + 1]
                /\ Finish(r, l, Ok)
    /\ UNCHANGED <<now, ticks, projects, tenants, tokens, schemas>>

\* ------------------------------------------------- token codec (jose)
\* A signed token is its claim map together with the key and the algorithm
\* of its HMAC: the signature verifies under that key and algorithm only.
\* dict.update: the added claims replace claims of the same name.
Updated(data, added) == added @@ data

\* expires_delta = 0 stands for None and for timedelta(0): both are falsy in
\* `if expires_delta:` and select settings.ACCESS_TOKEN_EXPIRE_MINUTES.
create_access_token(data, secret_key, algorithm, expires_delta) ==
    LET expire == IF expires_delta # 0
                  THEN now + expires_delta
                  ELSE now + AccessTokenExpireMinutes
    IN  [claims |-> Updated(data, [exp |-> expire, iat |-> now]),
         key |-> secret_key, alg |-> algorithm]

create_refresh_token(data, secret_key, algorithm) ==
    [claims |-> Updated(data, [exp |-> now + RefreshTokenDays * MinutesPerDay,
                               iat |-> now, type |-> "refresh"]),
     key |-> secret_key, alg |-> algorithm]

\* jwt.decode(token, secret_key, algorithms=[algorithm]); JWTError -> None.
\* The result is the set holding the payload, or the empty set for None.
decode_token_NoSignatureCheck(token, secret_key, algorithm) ==
    IF /\ token.alg = algorithm
       /\ ~(token.claims.exp < now)
    THEN {token.claims}
    ELSE {}

decode_token(token, secret_key, algorithm) ==
    IF /\ token.key = secret_key
       /\ token.alg = algorithm
       /\ ~(token.claims.exp < now)
    THEN {token.claims}
    ELSE {}

\* str(uuid) and uuid.UUID(str)
UuidStr(id) == <<"uuid", id>>
UUID(s) == s[2]

\* --------------------------------------------- AuthService private queries
_get_user(user_id) == {u \in users : u.id = user_id}

_get_membership(user_id, tenant_id) ==
    {m \in memberships : m.user_id = user_id /\ m.tenant_id = tenant_id}

_get_tenant_with_project(tenant_id) == {t \in tenants : t.id = tenant_id}

\* tenant.project, loaded with the tenant
ProjectOf(tenant) == The(ProjectsById(tenant.project_id))

\* ------------------------------------------ AuthService._generate_tokens
_generate_tokens(user, tenant, membership) ==
    LET project == ProjectOf(tenant)
        token_data == [sub |-> UuidStr(user.id),
                       email |-> user.email,
                       tenant_id |-> UuidStr(tenant.id),
                       project_id |-> UuidStr(tenant.project_id),
                       roles |-> membership.roles]
    IN  [access_token |->
             create_access_token(Updated(token_data, [type |-> "access"]),
                                 project.jwt_secret, project.jwt_algorithm,
                                 project.jwt_expiration_minutes),
         refresh_token |->
             create_refresh_token(token_data, project.jwt_secret,
                                  project.jwt_algorithm),
         expires_in |-> project.jwt_expiration_minutes * 60]

\* ---------------------------------------- AuthService._verify_credentials
\* The user, or None (the empty set); scalar_one_or_none raises when the
\* ILIKE lookup matches several rows, which the callers test first.
_verify_credentials_NoPasswordCheck(email, password) ==
    LET user == UsersByEmail(email)
    IN  IF IsNone(user) THEN {}
        ELSE IF ~The(user).is_active THEN {}
        ELSE user

_verify_credentials(email, password) ==
    LET user == UsersByEmail(email)
    IN  IF IsNone(user) THEN {}
        ELSE IF ~The(user).is_active THEN {}
        ELSE IF ~verify_password(password, The(user).password_hash) THEN {}
        ELSE user

\* select(Membership).where(user_id, is_active == True)
_get_user_memberships(user_id) ==
    {m \in memberships : m.user_id = user_id /\ m.is_active}

\* ---------------------------------------------- AuthService.login_global
LoginGlobal(r, email, password) ==
    /\ pc[r] = "idle"
    /\ LET l == [op |-> "login_global", email |-> email, password |-> password,
                 memberships |-> {}, resp |-> Ok]
           user == _verify_credentials(email, password)
       IN  IF IsMany(UsersByEmail(email)) THEN Finish(r, l, MultipleResultsFound)
           ELSE IF IsNone(user)
           THEN Finish(r, l, UnauthorizedError("Invalid email or password"))
           ELSE Finish(r, [l EXCEPT !.memberships =
                                  _get_user_memberships(The(user).id)], Ok)
    /\ UNCHANGED <<now, ticks, store, tokens>>

\* ---------------------------------------------- AuthService.login_tenant
LoginTenant(r, email, password, tenant_id) ==
    /\ pc[r] = "idle"
    /\ LET l == [op |-> "login_tenant", email |-> email, password |-> password,
                 tenant_id |-> tenant_id, out |-> {}, resp |-> Ok]
           user == _verify_credentials(email, password)
       IN  IF IsMany(UsersByEmail(email)) THEN Finish(r, l, MultipleResultsFound)
           ELSE IF IsNone(user)
           THEN Finish(r, l, UnauthorizedError("Invalid email or password"))
           ELSE LET membership == _get_membership(The(user).id, tenant_id)
                    tenant == _get_tenant_with_project(tenant_id)
                IN  IF IsNone(membership)
                    THEN Finish(r, l, UnauthorizedError("User is not a member of this tenant"))
                    ELSE IF ~The(membership).is_active
                    THEN Finish(r, l, UnauthorizedError("Membership is inactive"))
                    ELSE IF IsNone(tenant)
                    THEN Finish(r, l, NotFoundError("Tenant not found"))
                    ELSE IF ~The(tenant).is_active
                    THEN Finish(r, l, UnauthorizedError("Tenant is inactive"))
                    ELSE IF ~ProjectOf(The(tenant)).is_active
                    THEN Finish(r, l, UnauthorizedError("Project is inactive"))
                    ELSE Finish(r, [l EXCEPT !.out =
                             {_generate_tokens(The(user), The(tenant), The(membership))}],
                             Ok)
    /\ UNCHANGED <<now, ticks, store, tokens>>

\* ------------------------------------ AuthService._find_project_by_api_key
\* The first project, in listing order, whose digest matches the key.
\* Projects are listed by ascending id.
FirstById(rows) ==
    IF rows = {} THEN {}
    ELSE {CHOOSE p \in rows : \A q \in rows : p.id <= q.id}

_find_project_by_api_key_AnyProject(api_key) == FirstById(projects)

_find_project_by_api_key(api_key) ==
    FirstById({p \in projects : verify_api_key(api_key, p.api_key_hash)})

\* --------------------------------------------- AuthService.refresh_token
\* api_key = NoStr stands for no X-API-Key header (None is falsy, as "").
\* select(Project).where(Project.is_active == True)
ActiveProjects_All == projects

ActiveProjects == {p \in projects : p.is_active}

\* The orders in which a SELECT without ORDER BY may list the rows.
Listings(rows) ==
    {f \in [1..Cardinality(rows) -> rows] :
        \A i, j \in 1..Cardinality(rows) : f[i] = f[j] => i = j}

\* for p in projects: payload = decode_token(...); if payload: break
\* tried: the ids of the projects whose secret was given to decode_token.
RECURSIVE ProbeFrom(_, _, _)
ProbeFrom(refresh_token, listing, i) ==
    IF i > Len(listing) THEN [tried |-> <<>>, payload |-> {}]
    ELSE LET p == listing[i]
             payload == decode_token(refresh_token, p.jwt_secret, p.jwt_algorithm)
         IN  IF payload # {}
             THEN [tried |-> <<p.id>>, payload |-> payload]
             ELSE LET rest == ProbeFrom(refresh_token, listing, i + 1)
                  IN  [tried |-> <<p.id>> \o rest.tried, payload |-> rest.payload]

RefreshProbe(refresh_token, api_key, listing) ==
    IF api_key # NoStr
    THEN LET project == The(_find_project_by_api_key(api_key))
         IN  [tried |-> <<project.id>>,
              payload |-> decode_token(refresh_token, project.jwt_secret,
                                       project.jwt_algorithm)]
    ELSE ProbeFrom(refresh_token, listing, 1)

\* the three revalidation conditions of refresh_token
user_not_found_or_inactive(user) == IsNone(user) \/ ~The(user).is_active

membership_not_found_or_inactive_OnlyMissing(membership) == IsNone(membership)

membership_not_found_or_inactive(membership) ==
    IsNone(membership) \/ ~The(membership).is_active

tenant_or_project_inactive(tenant) ==
    \/ IsNone(tenant)
    \/ ~The(tenant).is_active
    \/ ~ProjectOf(The(tenant)).is_active

\* payload.get("type") != "refresh"
invalid_token_type_Never(payload) == FALSE

invalid_token_type(payload) ==
    ~("type" \in DOMAIN payload /\ payload.type = "refresh")

RefreshToken(r, refresh_token, api_key) ==
    /\ pc[r] = "idle"
    /\ \E listing \in Listings(ActiveProjects) :
       LET l0 == [op |-> "refresh_token", refresh_token |-> refresh_token,
                  api_key |-> api_key, tried |-> <<>>, out |-> {}, resp |-> Ok]
       IN  IF api_key # NoStr /\ IsNone(_find_project_by_api_key(api_key))
           THEN Finish(r, l0, UnauthorizedError("Invalid API key"))
           ELSE LET probe == RefreshProbe(refresh_token, api_key, listing)
                    payload == probe.payload
                    l == [l0 EXCEPT !.tried = probe.tried]
                IN  IF IsNone(payload)
                    THEN Finish(r, l, UnauthorizedError("Invalid or expired refresh token"))
                    ELSE IF invalid_token_type(The(payload))
                    THEN Finish(r, l, UnauthorizedError("Invalid token type"))
                    ELSE LET user_id == UUID(The(payload).sub)
                             tenant_id == UUID(The(payload).tenant_id)
                             user == _get_user(user_id)
                             membership == _get_membership(user_id, tenant_id)
                             tenant == _get_tenant_with_project(tenant_id)
                         IN  IF user_not_found_or_inactive(user)
                             THEN Finish(r, l, UnauthorizedError("User not found or inactive"))
                             ELSE IF membership_not_found_or_inactive(membership)
                             THEN Finish(r, l, UnauthorizedError("Membership not found or inactive"))
                             ELSE IF tenant_or_project_inactive(tenant)
                             THEN Finish(r, l, UnauthorizedError("Tenant or project inactive"))
                             ELSE Finish(r, [l EXCEPT !.out =
                                      {_generate_tokens(The(user), The(tenant),
                                                        The(membership))}], Ok)
    /\ UNCHANGED <<now, ticks, store, tokens>>

\* ------------------------------------- AuthService.get_project_by_api_key
\* The project, or the UnauthorizedError the call raises.
get_project_by_api_key(api_key) ==
    LET project == _find_project_by_api_key(api_key)
    IN  IF IsNone(project)
        THEN [project |-> {}, error |-> UnauthorizedError("Invalid API key")]
        ELSE IF ~The(project).is_active
        THEN [project |-> {}, error |-> UnauthorizedError("Project is inactive")]
        ELSE [project |-> project, error |-> Ok]

\* ------------------------------------------------ AuthService.verify_jwt
\* Never raises: the answer is JWTVerifyResponse(valid, payload | error).
VerifyJwt(r, api_key, token) ==
    /\ pc[r] = "idle"
    /\ LET l == [op |-> "verify_jwt", api_key |-> api_key, token |-> token,
                 valid |-> FALSE, payload |-> {}, error |-> "", resp |-> Ok]
           found == get_project_by_api_key(api_key)
       IN  IF IsNone(found.project)
           THEN Finish(r, [l EXCEPT !.error = found.error.detail], Ok)
           ELSE LET project == The(found.project)
                    payload == decode_token(token, project.jwt_secret,
                                            project.jwt_algorithm)
                IN  IF IsNone(payload)
                    THEN Finish(r, [l EXCEPT !.error = "Invalid or expired token"], Ok)
                    ELSE Finish(r, [l EXCEPT !.valid = TRUE, !.payload = payload], Ok)
    /\ UNCHANGED <<now, ticks, store, tokens>>

\* ------------------------------------------------ deps.get_current_user
\* The Authorization header is None (the empty sequence) or a sequence of
\* whitespace-separated words, the first one a sequence of characters.
Bearer == <<"B", "e", "a", "r", "e", "r">>
Basic == <<"B", "a", "s", "i", "c">>

\* payload.get("type") == "refresh"
is_refresh_payload_Never(payload) == FALSE

is_refresh_payload(payload) ==
    "type" \in DOMAIN payload /\ payload.type = "refresh"

\* the payload the probe over the active projects ends with
BearerPayload(token) ==
    LET hit == FirstById({p \in projects :
                   /\ p.is_active
                   /\ decode_token(token, p.jwt_secret, p.jwt_algorithm) # {}})
    IN  IF hit = {} THEN {}
        ELSE decode_token(token, The(hit).jwt_secret, The(hit).jwt_algorithm)

GetCurrentUser(r, authorization) ==
    /\ pc[r] = "idle"
    /\ LET l == [op |-> "get_current_user", authorization |-> authorization,
                 user |-> {}, resp |-> Ok]
       IN  IF authorization = <<>>
           THEN Finish(r, l, UnauthorizedError("Authorization header is required"))
           ELSE IF Len(authorization) # 2 \/ Lower(authorization[1]) # Lower(Bearer)
           THEN Finish(r, l, UnauthorizedError("Invalid Authorization format. Use: Bearer <token>"))
           ELSE LET payload == BearerPayload(authorization[2])
                IN  IF IsNone(payload)
                    THEN Finish(r, l, UnauthorizedError("Invalid or expired token"))
                    ELSE IF is_refresh_payload(The(payload))
                    THEN Finish(r, l, UnauthorizedError("Cannot use refresh token for authentication"))
                    ELSE LET user == {u \in users : u.id = UUID(The(payload).sub)}
                         IN  IF IsNone(user)
                             THEN Finish(r, l, UnauthorizedError("User not found"))
                             ELSE IF ~The(user).is_active
                             THEN Finish(r, l, UnauthorizedError("User is inactive"))
                             ELSE Finish(r, [l EXCEPT !.user = user], Ok)
    /\ UNCHANGED <<now, ticks, store, tokens>>

\* -------------------- UserService.update / TenantService.update /
\* -------------------- ProjectService.update, field is_active
UserUpdate(r, user_id, is_active) ==
    /\ pc[r] = "idle"
    /\ LET found == UsersById(user_id)
           l == [op |-> "user_update", user_id |-> user_id, resp |-> Ok]
       IN  IF IsNone(found)
           THEN /\ Finish(r, l, NotFoundError("User not found"))
                /\ UNCHANGED users
           ELSE /\ users' = (users \ found) \cup
                       {[The(found) EXCEPT !.is_active = is_active]}
                /\ Finish(r, l, Ok)
    /\ UNCHANGED <<now, ticks, projects, tenants, memberships, invitations, seq, tokens, schemas>>

TenantUpdate(r, tenant_id, is_active) ==
    /\ pc[r] = "idle"
    /\ LET found == TenantsById(tenant_id)
           l == [op |-> "tenant_update", tenant_id |-> tenant_id, resp |-> Ok]
       IN  IF IsNone(found)
           THEN /\ Finish(r, l, NotFoundError("Tenant not found"))
                /\ UNCHANGED tenants
           ELSE /\ tenants' = (tenants \ found) \cup
                       {[The(found) EXCEPT !.is_active = is_active]}
                /\ Finish(r, l, Ok)
    /\ UNCHANGED <<now, ticks, projects, users, memberships, invitations, seq, tokens, schemas>>

\* data: the fields set in the ProjectUpdate body (exclude_unset)
ProjectUpdate(r, project_id, data) ==
    /\ pc[r] = "idle"
    /\ LET found == ProjectsById(project_id)
           l == [op |-> "project_update", project_id |-> project_id, resp |-> Ok]
       IN  IF IsNone(found)
           THEN /\ Finish(r, l, NotFoundError("Project not found"))
                /\ UNCHANGED projects
           ELSE /\ projects' = (projects \ found) \cup
                       {[f \in DOMAIN The(found) |->
                            IF f \in DOMAIN data THEN data[f] ELSE The(found)[f]]}
                /\ Finish(r, l, Ok)
    /\ UNCHANGED <<now, ticks, tenants, users, memberships, invitations, seq, tokens, schemas>>

\* --------------------------------------------------- project credentials
\* secrets.token_urlsafe / token_hex: the n-th call that generates
\* credentials draws values no earlier call drew.
Digits == <<"1", "2", "3", "4", "5", "6", "7", "8", "9">>
generate_api_key(n) == <<"a", Digits[n]>>
generate_client_id(n) == <<"i", Digits[n]>>
generate_client_secret(n) == <<"y", Digits[n]>>
generate_jwt_secret(n) == <<"j", Digits[n]>>

GenerateRoom == seq.generated < MaxGenerated

\* uuid.uuid4().hex[:8]: eight hexadecimal characters, fresh at every call
uuid4_hex8(n) == <<"0", "0", "0", "0", "0", "0", "0", Digits[n]>>

\* f"{slug}-{uuid.uuid4().hex[:8]}"
Suffixed(slug, n) == slug \o <<"-">> \o uuid4_hex8(n)

\* the slug a new project gets: slugify(name), suffixed when a project has it
ProjectSlug(name, n) ==
    IF \E p \in projects : p.slug = slugify(name) THEN Suffixed(slugify(name), n)
    ELSE slugify(name)

\* plaintext credentials as handed to the caller, once
IssuedApiKey(project_id, n) ==
    [kind |-> "api_key", project_id |-> project_id, value |-> generate_api_key(n),
     issue |-> n]
IssuedClientSecret(project_id, client_id, n) ==
    [kind |-> "client_secret", project_id |-> project_id, client_id |-> client_id,
     value |-> generate_client_secret(n), issue |-> n]

\* ------------------------------------------------- ProjectService.create
ProjectCreate(r, name, tenant_strategy) ==
    /\ pc[r] = "idle"
    /\ GenerateRoom
    /\ LET n == seq.generated + 1
           id == seq.project + 1
           project == [id |-> id, slug |-> ProjectSlug(name, n),
                       tenant_strategy |-> tenant_strategy, is_active |-> TRUE,
                       api_key_hash |-> hash_password(generate_api_key(n)),
                       client_id |-> generate_client_id(n),
                       client_secret_hash |-> hash_password(generate_client_secret(n)),
                       jwt_secret |-> generate_jwt_secret(n),
                       jwt_algorithm |-> "HS256", jwt_expiration_minutes |-> 30]
       IN  /\ projects' = projects \cup {project}
           /\ seq' = [seq EXCEPT !.project = id, !.generated = n]
           /\ Finish(r, [op |-> "project_create", project_id |-> id,
                         credentials |-> {IssuedApiKey(id, n),
                                          IssuedClientSecret(id, generate_client_id(n), n)},
                         resp |-> Ok], Ok)
    /\ UNCHANGED <<now, ticks, tenants, users, memberships, invitations, tokens, schemas>>

\* ------------------------------------- admin panel: POST /panel/create
AdminCreateProject(r, name, tenant_strategy, jwt_algorithm, jwt_expiration) ==
    /\ pc[r] = "idle"
    /\ GenerateRoom
    /\ LET n == seq.generated + 1
           id == seq.project + 1
           project == [id |-> id, slug |-> ProjectSlug(Strip(name), n),
                       tenant_strategy |-> tenant_strategy, is_active |-> TRUE,
                       api_key_hash |-> hash_secret(generate_api_key(n)),
                       client_id |-> generate_client_id(n),
                       client_secret_hash |-> hash_secret(generate_client_secret(n)),
                       jwt_secret |-> generate_jwt_secret(n),
                       jwt_algorithm |-> jwt_algorithm,
                       jwt_expiration_minutes |-> jwt_expiration]
       IN  /\ projects' = projects \cup {project}
           /\ seq' = [seq EXCEPT !.project = id, !.generated = n]
           /\ Finish(r, [op |-> "admin_create_project", project_id |-> id,
                         credentials |-> {IssuedApiKey(id, n),
                                          IssuedClientSecret(id, generate_client_id(n), n)},
                         resp |-> Ok], Redirect)
    /\ UNCHANGED <<now, ticks, tenants, users, memberships, invitations, tokens, schemas>>

\* ----------------------------------- ProjectService.regenerate_api_key
WithNewApiKey_AndJwtSecret(project, n) ==
    [project EXCEPT !.api_key_hash = hash_password(generate_api_key(n)),
                    !.jwt_secret = generate_jwt_secret(n)]

WithNewApiKey(project, n) ==
    [project EXCEPT !.api_key_hash = hash_password(generate_api_key(n))]

RegenerateApiKey(r, project_id) ==
    /\ pc[r] = "idle"
    /\ LET found == ProjectsById(project_id)
           n == seq.generated + 1
           l == [op |-> "regenerate_api_key", project_id |-> project_id,
                 credentials |-> {}, resp |-> Ok]
       IN  IF IsNone(found)
           THEN /\ Finish(r, l, NotFoundError("Project not found"))
                /\ UNCHANGED <<projects, seq>>
           ELSE /\ GenerateRoom
                /\ projects' = (projects \ found) \cup {WithNewApiKey(The(found), n)}
                /\ seq' = [seq EXCEPT !.generated = n]
                /\ Finish(r, [l EXCEPT !.credentials = {IssuedApiKey(project_id, n)}], Ok)
    /\ UNCHANGED <<now, ticks, tenants, users, memberships, invitations, tokens, schemas>>

\* ------------------------------ ProjectService.regenerate_client_secret
WithNewClientSecret(project, n) ==
    [project EXCEPT !.client_secret_hash = hash_password(generate_client_secret(n))]

RegenerateClientSecret(r, project_id) ==
    /\ pc[r] = "idle"
    /\ LET found == ProjectsById(project_id)
           n == seq.generated + 1
           l == [op |-> "regenerate_client_secret", project_id |-> project_id,
                 credentials |-> {}, resp |-> Ok]
       IN  IF IsNone(found)
           THEN /\ Finish(r, l, NotFoundError("Project not found"))
                /\ UNCHANGED <<projects, seq>>
           ELSE /\ GenerateRoom
                /\ projects' = (projects \ found) \cup {WithNewClientSecret(The(found), n)}
                /\ seq' = [seq EXCEPT !.generated = n]
                /\ Finish(r, [l EXCEPT !.credentials =
                         {IssuedClientSecret(project_id, The(found).client_id, n)}], Ok)
    /\ UNCHANGED <<now, ticks, tenants, users, memberships, invitations, tokens, schemas>>

\* ------------------------------- AuthService.get_project_by_api_key, called
GetProjectByApiKey(r, api_key) ==
    /\ pc[r] = "idle"
    /\ LET found == get_project_by_api_key(api_key)
       IN  Finish(r, [op |-> "get_project_by_api_key", api_key |-> api_key,
                      project |-> found.project, resp |-> Ok], found.error)
    /\ UNCHANGED <<now, ticks, store, tokens>>

\* ------------------------------ GET /auth/project (get_project_info)
\* ProjectInfoResponse hands the project's jwt_secret and jwt_algorithm to
\* the holder of the API key.
ProjectInfoResponse(project) ==
    [kind |-> "project_info", project_id |-> project.id,
     jwt_secret |-> project.jwt_secret, jwt_algorithm |-> project.jwt_algorithm,
     jwt_expiration_minutes |-> project.jwt_expiration_minutes]

GetProjectInfo(r, api_key) ==
    /\ pc[r] = "idle"
    /\ LET found == get_project_by_api_key(api_key)
       IN  Finish(r, [op |-> "get_project_info", api_key |-> api_key,
                      credentials |-> {ProjectInfoResponse(p) : p \in found.project},
                      resp |-> Ok], found.error)
    /\ UNCHANGED <<now, ticks, store, tokens>>

\* ------------------------ AuthService.get_project_by_client_credentials
_get_project_by_client_id(client_id) == {p \in projects : p.client_id = client_id}

verify_client_secret(client_secret, client_secret_hash) ==
    verify_secret(client_secret, client_secret_hash)

GetProjectByClientCredentials(r, client_id, client_secret) ==
    /\ pc[r] = "idle"
    /\ LET project == _get_project_by_client_id(client_id)
           l == [op |-> "get_project_by_client_credentials", client_id |-> client_id,
                 client_secret |-> client_secret, project |-> {}, resp |-> Ok]
       IN  IF IsNone(project)
           THEN Finish(r, l, UnauthorizedError("Invalid client credentials"))
           ELSE IF ~verify_client_secret(client_secret, The(project).client_secret_hash)
           THEN Finish(r, l, UnauthorizedError("Invalid client credentials"))
           ELSE IF ~The(project).is_active
           THEN Finish(r, l, UnauthorizedError("Project is inactive"))
           ELSE Finish(r, [l EXCEPT !.project = project], Ok)
    /\ UNCHANGED <<now, ticks, store, tokens>>

\* --------------------------------------------------- tenant creation
\* uq_tenants_project_slug
TenantSlugFree_NoConstraint(project_id, slug) == TRUE

TenantSlugFree(project_id, slug) ==
    \A t \in tenants : ~(t.project_id = project_id /\ t.slug = slug)

\* tenants.schema_name is unique (NULLs, here NoStr, do not collide)
SchemaNameFree(schema_name) ==
    schema_name = NoStr \/ \A t \in tenants : t.schema_name # schema_name

\* ForeignKey("projects.id")
ProjectExists(project_id) == \E p \in projects : p.id = project_id

get_by_project_and_slug(project_id, slug) ==
    {t \in tenants : t.project_id = project_id /\ t.slug = slug}

TenantRoom == seq.tenant + Pending("tenant") < Cardinality(InitTenants) + MaxTenants

\* The part TenantService.create and the panel's create_tenant share, from
\* slugify to db.add: the slug check, the suffix, and create_schema, which
\* runs CREATE SCHEMA IF NOT EXISTS in a session of its own and commits it.
TenantPrepare(r, l, project, name) ==
    LET derived == slugify(name)
        existing == get_by_project_and_slug(project.id, derived)
        n == seq.generated + 1
        slug == IF existing # {} THEN Suffixed(derived, n) ELSE derived
        schema_name == IF project.tenant_strategy = "schema"
                       THEN SchemaName(project.slug, slug) ELSE NoStr
    IN  /\ TenantRoom
        /\ IF existing # {}
           THEN GenerateRoom /\ seq' = [seq EXCEPT !.generated = n]
           ELSE UNCHANGED seq
        /\ schemas' = IF schema_name # NoStr THEN schemas \cup {schema_name} ELSE schemas
        /\ ToCommit(r, [l EXCEPT !.name = name, !.derived = derived,
                                 !.existing = existing, !.slug = slug,
                                 !.schema_name = schema_name])

\* db.add(tenant); db.commit(): the row gets its id and the constraints of
\* table tenants are checked
TenantInsert(r, resp) ==
    LET l == loc[r]
        id == seq.tenant + 1
        tenant == [id |-> id, project_id |-> l.project_id, name |-> l.name,
                   slug |-> l.slug, schema_name |-> l.schema_name, is_active |-> TRUE]
    IN  IF /\ TenantSlugFree(l.project_id, l.slug)
           /\ SchemaNameFree(l.schema_name)
           /\ ProjectExists(l.project_id)
        THEN /\ tenants' = tenants \cup {tenant}
             /\ seq' = [seq EXCEPT !.tenant = id]
             /\ Finish(r, [l EXCEPT !.tenant_id = id], resp)
        ELSE /\ UNCHANGED <<tenants, seq>>
             /\ Finish(r, l, IntegrityError)

TenantLoc(op, project_id) ==
    [op |-> op, project_id |-> project_id, name |-> NoStr, derived |-> NoStr,
     existing |-> {}, slug |-> NoStr, schema_name |-> NoStr, tenant_id |-> NULL,
     inserts |-> {"tenant"}, resp |-> Ok]

\* ------------------------------------------------- TenantService.create
TenantCreateBegin(r, project_id, name) ==
    /\ pc[r] = "idle"
    /\ LET project == ProjectsById(project_id)
           l == TenantLoc("tenant_create", project_id)
       IN  IF IsNone(project)
           THEN /\ Finish(r, l, NotFoundError("Project not found"))
                /\ UNCHANGED <<seq, schemas>>
           ELSE TenantPrepare(r, l, The(project), name)
    /\ UNCHANGED <<now, ticks, projects, tenants, users, memberships, invitations, tokens>>

TenantCreateCommit(r) ==
    /\ pc[r] = "commit"
    /\ loc[r].op = "tenant_create"
    /\ TenantInsert(r, Ok)
    /\ UNCHANGED <<now, ticks, projects, users, memberships, invitations, schemas, tokens>>

\* ------------------- admin panel: POST /panel/{project_id}/tenants/create
AdminCreateTenantBegin(r, project_id, name) ==
    /\ pc[r] = "idle"
    /\ LET project == ProjectsById(project_id)
           l == TenantLoc("admin_create_tenant", project_id)
       IN  IF IsNone(project)
           THEN /\ Finish(r, l, Redirect)
                /\ UNCHANGED <<seq, schemas>>
           ELSE TenantPrepare(r, l, The(project), Strip(name))
    /\ UNCHANGED <<now, ticks, projects, tenants, users, memberships, invitations, tokens>>

AdminCreateTenantCommit(r) ==
    /\ pc[r] = "commit"
    /\ loc[r].op = "admin_create_tenant"
    /\ TenantInsert(r, Redirect)
    /\ UNCHANGED <<now, ticks, projects, users, memberships, invitations, schemas, tokens>>

\* ------------------------------------------------- TenantService.delete
\* drop_schema runs DROP SCHEMA IF EXISTS in a session of its own and commits
\* it before the tenant row is deleted.
TenantDeleteBegin(r, tenant_id) ==
    /\ pc[r] = "idle"
    /\ LET tenant == TenantsById(tenant_id)
           l == [op |-> "tenant_delete", tenant_id |-> tenant_id, tenant |-> tenant,
                 inserts |-> {}, resp |-> Ok]
       IN  IF IsNone(tenant)
           THEN /\ Finish(r, l, NotFoundError("Tenant not found"))
                /\ UNCHANGED schemas
           ELSE /\ schemas' = IF The(tenant).schema_name # NoStr
                              THEN schemas \ {The(tenant).schema_name}
                              ELSE schemas
                /\ ToCommit(r, l)
    /\ UNCHANGED <<now, ticks, projects, tenants, users, memberships, invitations, seq,
                   tokens>>

\* db.delete(tenant); db.commit(): DELETE of the row by primary key; rows of
\* memberships and invitations go with it (ON DELETE CASCADE).  A row that is
\* already gone makes the DELETE match nothing.
TenantDeleteCommit(r) ==
    /\ pc[r] = "commit"
    /\ loc[r].op = "tenant_delete"
    /\ tenants' = {t \in tenants : t.id # loc[r].tenant_id}
    /\ memberships' = {m \in memberships : m.tenant_id # loc[r].tenant_id}
    /\ invitations' = {i \in invitations : i.tenant_id # loc[r].tenant_id}
    /\ Finish(r, loc[r], Ok)
    /\ UNCHANGED <<now, ticks, projects, users, seq, schemas, tokens>>

\* ------------------------------------------------------- request inputs
\* An email is abstracted to its local part.
Emails == { <<"a", "b">>, <<"A", "b">>, <<"a", "_">> }
Passwords == { <<"p", "1">>, <<"p", "2">> }
FullNames == { <<"n">> }
ExpiresInHours == { 1 }
UserIds == 1..MaxUsers
TenantIds == {1, 2, 3}
MembershipIds == 1..MaxMemberships
InvitationIds == 1..MaxInvitations

\* ------------------------------------------ invitation life cycle, serial
Pw1 == <<"p", "1">>

InviteOps(r) ==
    \/ \E e \in Emails, n \in FullNames : RegisterBegin(r, e, Pw1, n)
    \/ RegisterCommit(r)
    \/ \E u \in UserIds, t \in TenantIds : MembershipCreateBegin(r, u, t, <<>>)
    \/ MembershipCreateCommit(r)
    \/ \E m \in MembershipIds : MembershipDelete(r, m)
    \/ \E t \in TenantIds, e \in Emails, h \in ExpiresInHours :
           CreateInvitationBegin(r, t, e, <<"admin">>, h)
    \/ CreateInvitationCommit(r)
    \/ \E t \in TenantIds, e \in Emails, h \in ExpiresInHours :
           AdminCreateInvitation(r, 1, t, e, <<"admin">>, h)
    \/ \E i \in InvitationIds : DeleteInvitation(r, i)
    \/ \E tk \in InvitationIds \cup {MaxInvitations + 1},
          p \in {Pw1, NoStr}, n \in FullNames \cup {NoStr} :
           AcceptInvitationBegin(r, tk, p, n)
    \/ AcceptInvitationCommit(r)
    \/ Return(r)

Next ==
    \/ InviteOps(1)
    \/ Tick(MinutesPerHour)

Spec == Init /\ [][Next]_vars

\* ================================================================ claims
Done(r, op) == pc[r] = "done" /\ loc[r].op = op
Status(r) == loc[r].resp.status

\* the users whose email is the given one, ignoring letter case
UsersWithEmail(email) == {u \in users : Lower(u.email) = Lower(email)}

\* C1: accepting a pending invitation (unused, unexpired, password and full
\* name supplied) succeeds, and afterwards exactly one user has the
\* invitation's email and exactly one membership joins a user of that email
\* to the invitation's tenant; accepting a used invitation is refused with
\* BadRequest "Invitation has already been used".
C1_AcceptOnceThenRefused ==
    \A r \in Slots :
        (Done(r, "accept_invitation") /\ loc[r].invitation # {}) =>
            LET inv == The(loc[r].invitation)
                owners == UsersWithEmail(inv.email)
            IN  /\ (/\ inv.used_at = NULL
                    /\ now <= inv.expires_at
                    /\ loc[r].password # NoStr
                    /\ loc[r].full_name # NoStr)
                   => /\ Status(r) = "ok"
                      /\ Cardinality(owners) = 1
                      /\ Cardinality({m \in memberships :
                                        /\ m.tenant_id = inv.tenant_id
                                        /\ \E u \in owners : u.id = m.user_id}) = 1
                /\ inv.used_at # NULL
                   => loc[r].resp = BadRequestError("Invitation has already been used")

\* C5: no two membership rows share (user_id, tenant_id); a create call for
\* a pair that has a membership is refused with BadRequest and the existing
\* row is still the only one of the pair.
C5_OneMembershipPerPair ==
    /\ \A m1, m2 \in memberships :
           (m1.user_id = m2.user_id /\ m1.tenant_id = m2.tenant_id) => m1 = m2
    /\ \A r \in Slots :
           (Done(r, "membership_create") /\ loc[r].existing # {}) =>
               /\ Status(r) = "BadRequestError"
               /\ {m \in memberships : /\ m.user_id = loc[r].user_id
                                       /\ m.tenant_id = loc[r].tenant_id}
                    = loc[r].existing

C5_Witness ==
    /\ Done(1, "membership_create")
    /\ loc[1].existing # {}
    /\ Cardinality(memberships) = 2

\* C6: a call of accept_invitation on an invitation that is expired (now
\* later than expires_at) or used (used_at set) ends in BadRequest at once
\* and creates no user and no membership.
C6_ExpiredOrUsedNeverAccepted ==
    [][\A r \in Slots : \A i \in invitations :
          (/\ pc[r] = "idle"
           /\ pc'[r] # "idle"
           /\ loc'[r].op = "accept_invitation"
           /\ loc'[r].token = i.token
           /\ (now > i.expires_at \/ i.used_at # NULL))
          => /\ pc'[r] = "done"
             /\ loc'[r].resp.status = "BadRequestError"
             /\ users' = users
             /\ memberships' = memberships
             /\ invitations' = invitations]_vars

C6_Witness ==
    /\ Done(1, "accept_invitation")
    /\ loc[1].invitation # {}
    /\ The(loc[1].invitation).used_at = NULL
    /\ now > The(loc[1].invitation).expires_at
    /\ loc[1].password # NoStr
    /\ \E i \in invitations : i.used_at # NULL

\* C7: at most one live (unused, unexpired) invitation per (email, tenant).
Live(i) == i.used_at = NULL /\ now <= i.expires_at

C7_OneLiveInvitationPerPair ==
    \A i1, i2 \in invitations :
        (/\ Live(i1) /\ Live(i2)
         /\ i1.email = i2.email
         /\ i1.tenant_id = i2.tenant_id) => i1 = i2

\* C8: create_invitation answers NotFound exactly when the tenant is
\* missing, and refuses with BadRequest "An invitation already exists for
\* this email" only when a live (unused and unexpired) invitation exists for
\* the (email, tenant) pair: a used or expired one does not block.
C8_LivePending(email, tenant_id) ==
    \E i \in invitations :
        i.email = Lower(email) /\ i.tenant_id = tenant_id /\ Live(i)

C8_CreateInvitationFailsExactly ==
    \A r \in Slots :
        Done(r, "create_invitation") =>
            /\ Status(r) = "NotFoundError" <=> ~TenantExists(loc[r].tenant_id)
            /\ loc[r].resp = BadRequestError("An invitation already exists for this email")
                   => C8_LivePending(loc[r].email, loc[r].tenant_id)

\* C9: register fails, with BadRequest "Email already registered", exactly
\* when a user has that email ignoring letter case, and no two users share
\* a case-folded email.
C9_EmailUniqueIgnoringCase ==
    /\ \A u1, u2 \in users : Lower(u1.email) = Lower(u2.email) => u1 = u2
    /\ \A r \in Slots :
           (pc[r] # "idle" /\ loc[r].op = "register") =>
               /\ pc[r] = "commit" => UsersWithEmail(loc[r].email) = {}
               /\ (pc[r] = "done" /\ Status(r) # "ok") =>
                      /\ loc[r].resp = BadRequestError("Email already registered")
                      /\ UsersWithEmail(loc[r].email) # {}

\* ------------------------------------------- concurrent requests, 2 slots
EmailAB == <<"a", "b">>

RaceOps(r) ==
    \/ \E n \in FullNames : RegisterBegin(r, EmailAB, Pw1, n)
    \/ RegisterCommit(r)
    \/ MembershipCreateBegin(r, 1, 1, <<>>)
    \/ MembershipCreateCommit(r)
    \/ \E m \in MembershipIds : MembershipDelete(r, m)
    \/ AdminCreateInvitation(r, 1, 1, EmailAB, <<"admin">>, 1)
    \/ \E i \in InvitationIds : DeleteInvitation(r, i)
    \/ \E tk \in InvitationIds, p \in {Pw1, NoStr}, n \in FullNames :
           AcceptInvitationBegin(r, tk, p, n)
    \/ AcceptInvitationCommit(r)
    \/ Return(r)

NextRace == \E r \in Slots : RaceOps(r)

SpecRace == Init /\ [][NextRace]_vars

\* C2: accept_invitation is all or nothing.  Its checks change no table;
\* its commit either sets used_at, inserts the membership and (when no user
\* existed) inserts the user, all in one step, or raises and changes no
\* table.  In no step of any request does an invitation become used without
\* a membership on its tenant being inserted in that step.
C2_AcceptAtomic ==
    [][/\ \A r \in Slots :
            (pc[r] = "idle" /\ pc'[r] # "idle" /\ loc'[r].op = "accept_invitation")
              => /\ users' = users
                 /\ memberships' = memberships
                 /\ invitations' = invitations
       /\ \A r \in Slots :
            (pc[r] = "commit" /\ loc[r].op = "accept_invitation" /\ pc'[r] = "done")
              => LET inv == The(loc[r].invitation)
                 IN  IF loc'[r].resp.status = "ok"
                     THEN /\ \E i \in invitations' : i.id = inv.id /\ i.used_at # NULL
                          /\ \E m \in memberships' \ memberships :
                                /\ m.tenant_id = inv.tenant_id
                                /\ \E u \in users' : u.id = m.user_id
                                /\ loc[r].new_user # {}
                                     => \E u \in users' \ users :
                                           u.id = m.user_id /\ u.email = inv.email
                     ELSE /\ users' = users
                          /\ memberships' = memberships
                          /\ invitations' = invitations
       /\ \A i \in invitations :
            (i.used_at = NULL /\ \E j \in invitations' : j.id = i.id /\ j.used_at # NULL)
              => \E m \in memberships' \ memberships : m.tenant_id = i.tenant_id
      ]_vars

\* a commit of accept_invitation that failed after the user was flushed
C2_Witness ==
    \E r \in Slots :
        /\ Done(r, "accept_invitation")
        /\ loc[r].new_user # {}
        /\ Status(r) \in {"IntegrityError", "StaleDataError"}


\* ------------------------------------------- login and refresh, serial
EmailCB == <<"c", "b">>
LoginEmails == { EmailAB, <<"A", "b">>, EmailCB, <<"a", "_">>, <<"_", "b">>, <<"z", "b">> }
ApiKeys == { NoStr, <<"k", "1">>, <<"k", "2">>, <<"k", "0">> }

AuthOps(r) ==
    \/ \E e \in {EmailAB, EmailCB}, n \in FullNames : RegisterBegin(r, e, Pw1, n)
    \/ RegisterCommit(r)
    \/ \E u \in UserIds : MembershipCreateBegin(r, u, 1, <<"admin">>)
    \/ MembershipCreateCommit(r)
    \/ \E m \in MembershipIds, a \in BOOLEAN : MembershipUpdate(r, m, {}, {a})
    \/ \E m \in MembershipIds : MembershipDelete(r, m)
    \/ \E u \in UserIds, a \in BOOLEAN : UserUpdate(r, u, a)
    \/ \E a \in BOOLEAN : TenantUpdate(r, 1, a)
    \/ \E a \in BOOLEAN : ProjectUpdate(r, 1, [is_active |-> a])
    \/ \E e \in LoginEmails, p \in Passwords : LoginGlobal(r, e, p)
    \/ \E e \in LoginEmails, p \in Passwords, t \in {1, 2} : LoginTenant(r, e, p, t)
    \/ \E t \in tokens, k \in ApiKeys : RefreshToken(r, t.refresh_token, k)
    \/ \E t \in tokens, k \in ApiKeys : RefreshToken(r, t.access_token, k)
    \/ \E t \in tokens, k \in ApiKeys \ {NoStr} : VerifyJwt(r, k, t.access_token)
    \/ \E t \in tokens, k \in ApiKeys \ {NoStr} : VerifyJwt(r, k, t.refresh_token)
    \/ \E t \in tokens, s \in {Bearer, Basic} : GetCurrentUser(r, <<s, t.access_token>>)
    \/ \E t \in tokens : GetCurrentUser(r, <<Bearer, t.refresh_token>>)
    \/ GetCurrentUser(r, <<>>)
    \/ Return(r)

NextAuth == AuthOps(1) \/ Tick(RefreshTokenDays * MinutesPerDay)

SpecAuth == Init /\ [][NextAuth]_vars


\* the grants a token pair for (user id, tenant id) stands on: the user, the
\* membership of the pair, the tenant and the tenant's project all exist and
\* are active
Granted(user_id, tenant_id) ==
    /\ \E u \in users : u.id = user_id /\ u.is_active
    /\ \E m \in memberships :
           m.user_id = user_id /\ m.tenant_id = tenant_id /\ m.is_active
    /\ \E t \in tenants :
           /\ t.id = tenant_id
           /\ t.is_active
           /\ \E p \in projects : p.id = t.project_id /\ p.is_active

\* C3: a refresh call made while the user, the membership, the tenant or
\* the owning project named by the refresh token is missing or inactive is
\* refused with Unauthorized and returns no token pair, however long the
\* refresh token itself remains valid.
C3_RevocationThroughRefresh ==
    \A r \in Slots :
        Done(r, "refresh_token") =>
            LET claims == loc[r].refresh_token.claims
            IN  ~Granted(UUID(claims.sub), UUID(claims.tenant_id))
                    => /\ Status(r) = "UnauthorizedError"
                       /\ loc[r].out = {}

C3_Witness ==
    /\ Done(1, "refresh_token")
    /\ loc[1].api_key = NoStr
    /\ now <= loc[1].refresh_token.claims.exp
    /\ \E m \in memberships :
           /\ UuidStr(m.user_id) = loc[1].refresh_token.claims.sub
           /\ UuidStr(m.tenant_id) = loc[1].refresh_token.claims.tenant_id
           /\ ~m.is_active
    /\ \E u \in users : UuidStr(u.id) = loc[1].refresh_token.claims.sub /\ u.is_active
    /\ \A t \in tenants : t.is_active
    /\ \A p \in projects : p.is_active
    /\ loc[1].resp = UnauthorizedError("Membership not found or inactive")

C10_LoginGlobalUniformFailure ==
    \A r \in Slots :
        Done(r, "login_global") =>
            LET owner == UsersWithEmail(loc[r].email)
            IN  (\/ owner = {}
                 \/ \E u \in owner : ~u.is_active
                 \/ \E u \in owner : ~verify_password(loc[r].password, u.password_hash))
                    => loc[r].resp = UnauthorizedError("Invalid email or password")

\* C11: every Unauthorized answer of login_tenant carries the message of its
\* credential failure, and every Unauthorized answer of refresh_token that
\* comes from the revalidation of user, membership, tenant and project
\* carries the message of its user failure: the message does not tell which
\* entity of the chain failed.
C11_GenericUnauthorizedMessage ==
    \A r \in Slots :
        /\ (Done(r, "login_tenant") /\ Status(r) = "UnauthorizedError")
               => loc[r].resp.detail = "Invalid email or password"
        /\ (/\ Done(r, "refresh_token")
            /\ Status(r) = "UnauthorizedError"
            /\ loc[r].resp.detail \notin {"Invalid API key",
                                          "Invalid or expired refresh token",
                                          "Invalid token type"})
               => loc[r].resp.detail = "User not found or inactive"

\* C12: refresh_token refuses with Unauthorized, and returns no token pair
\* for, every token whose type claim is not "refresh"; the access token of a
\* token pair, presented while validly signed and unexpired, is refused.
C12_RefreshRejectsOtherTypes ==
    \A r \in Slots :
        Done(r, "refresh_token") =>
            LET claims == loc[r].refresh_token.claims
            IN  ("type" \notin DOMAIN claims \/ claims.type # "refresh")
                    => /\ Status(r) = "UnauthorizedError"
                       /\ loc[r].out = {}

C12_Witness ==
    /\ Done(1, "refresh_token")
    /\ loc[1].refresh_token.claims.type = "access"
    /\ now <= loc[1].refresh_token.claims.exp
    /\ \E p \in projects : p.is_active /\ p.jwt_secret = loc[1].refresh_token.key
    /\ Granted(UUID(loc[1].refresh_token.claims.sub),
               UUID(loc[1].refresh_token.claims.tenant_id))
    /\ loc[1].resp = UnauthorizedError("Invalid token type")

\* C13 (as stated): no operation that takes a bearer token accepts a token
\* minted by create_refresh_token: get_current_user authenticates nobody
\* with it and verify_jwt does not report it valid.
C13_RefreshNeverAcceptedAsAccess ==
    \A r \in Slots :
        /\ (/\ Done(r, "get_current_user")
            /\ Len(loc[r].authorization) = 2
            /\ loc[r].authorization[2].claims.type = "refresh")
               => loc[r].user = {} /\ Status(r) = "UnauthorizedError"
        /\ (Done(r, "verify_jwt") /\ loc[r].token.claims.type = "refresh")
               => ~loc[r].valid

\* C13 (amended): get_current_user authenticates nobody with a token minted
\* by create_refresh_token and answers Unauthorized; verify_jwt checks
\* signature and expiry only, and reports a token valid exactly when the
\* API key resolves to an active project whose secret and algorithm signed
\* the token and the token is unexpired, whatever its type claim.
C13_RefreshRefusedByGetCurrentUser ==
    \A r \in Slots :
        /\ (/\ Done(r, "get_current_user")
            /\ Len(loc[r].authorization) = 2
            /\ loc[r].authorization[2].claims.type = "refresh")
               => loc[r].user = {} /\ Status(r) = "UnauthorizedError"
        /\ Done(r, "verify_jwt") =>
               /\ loc[r].valid <=>
                      \E p \in projects :
                          /\ p.is_active
                          /\ verify_api_key(loc[r].api_key, p.api_key_hash)
                          /\ loc[r].token.key = p.jwt_secret
                          /\ loc[r].token.alg = p.jwt_algorithm
                          /\ now <= loc[r].token.claims.exp
               /\ loc[r].valid => loc[r].payload = {loc[r].token.claims}

C13_Witness ==
    /\ Done(1, "get_current_user")
    /\ Len(loc[1].authorization) = 2
    /\ loc[1].authorization[2].claims.type = "refresh"
    /\ now <= loc[1].authorization[2].claims.exp
    /\ \E p \in projects :
           p.is_active /\ p.jwt_secret = loc[1].authorization[2].key
    /\ \E u \in users :
           u.is_active /\ UuidStr(u.id) = loc[1].authorization[2].claims.sub
    /\ loc[1].resp = UnauthorizedError("Cannot use refresh token for authentication")

\* the elements of a sequence
Range(q) == {q[i] : i \in 1..Len(q)}

\* the project's secret and algorithm decode the token now
Decodes(p, token) == decode_token(token, p.jwt_secret, p.jwt_algorithm) # {}

\* C14: in refresh_token, an API key that matches no project is answered
\* Unauthorized with no secret tried; a matching API key has exactly the
\* secret of its project tried; without an API key the secrets tried are
\* those of distinct active projects, each one before the last fails to
\* decode, the probe ends at the first project that decodes the token or
\* after all active projects, and no inactive project's secret is tried.
C14_SecretSelection ==
    \A r \in Slots :
        Done(r, "refresh_token") =>
            LET tried == loc[r].tried
                token == loc[r].refresh_token
                keyed == {p \in projects :
                              verify_api_key(loc[r].api_key, p.api_key_hash)}
            IN  /\ (loc[r].api_key # NoStr /\ keyed = {})
                       => /\ tried = <<>>
                          /\ loc[r].resp = UnauthorizedError("Invalid API key")
                /\ (loc[r].api_key # NoStr /\ keyed # {})
                       => \E p \in keyed : tried = <<p.id>>
                /\ loc[r].api_key = NoStr
                       => /\ \A i, j \in 1..Len(tried) : tried[i] = tried[j] => i = j
                          /\ \A i \in 1..Len(tried) :
                                 \E p \in projects :
                                     /\ p.id = tried[i]
                                     /\ p.is_active
                                     /\ i < Len(tried) => ~Decodes(p, token)
                          /\ \/ /\ tried # <<>>
                                /\ \E p \in projects :
                                       p.id = tried[Len(tried)] /\ Decodes(p, token)
                             \/ /\ Range(tried) = {p.id : p \in ActiveProjects}
                                /\ \A p \in ActiveProjects : ~Decodes(p, token)
                                /\ loc[r].out = {}

C14_Witness ==
    /\ Done(1, "refresh_token")
    /\ loc[1].api_key = NoStr
    /\ loc[1].tried = <<2, 1>>
    /\ \A p \in projects : p.is_active
    /\ loc[1].out # {}

\* --------------------------------------------- token codec, as functions
\* A caller encodes a claim map, keeps the token, and decodes it later.
ClaimMaps ==
    { [sub |-> "u1", roles |-> <<"admin">>],
      [sub |-> "u1", exp |-> 1, iat |-> 1],
      [type |-> "refresh"] }
Secrets == { <<"s", "1">>, <<"s", "2">> }
Algorithms == { "HS256", "HS384", "HS512" }
QuarterHour == 15
Lifetimes == { 0, QuarterHour }

CreateAccessToken(r, data, secret_key, algorithm, expires_delta) ==
    /\ pc[r] = "idle"
    /\ Finish(r, [op |-> "create_access_token",
                  out |-> {[access_token |->
                                create_access_token(data, secret_key, algorithm,
                                                    expires_delta),
                            data |-> data, secret_key |-> secret_key,
                            algorithm |-> algorithm,
                            expires_delta |-> expires_delta, created |-> now]},
                  resp |-> Ok], Ok)
    /\ UNCHANGED <<now, ticks, store, tokens>>

DecodeToken(r, issued, secret_key, algorithm) ==
    /\ pc[r] = "idle"
    /\ Finish(r, [op |-> "decode_token", issued |-> issued,
                  secret_key |-> secret_key, algorithm |-> algorithm,
                  payload |-> decode_token(issued.access_token, secret_key,
                                           algorithm),
                  resp |-> Ok], Ok)
    /\ UNCHANGED <<now, ticks, store, tokens>>

CodecOps(r) ==
    \/ \E d \in ClaimMaps, k \in Secrets, a \in Algorithms, t \in Lifetimes :
           CreateAccessToken(r, d, k, a, t)
    \/ \E i \in tokens, k \in Secrets, a \in Algorithms : DecodeToken(r, i, k, a)
    \/ Return(r)

NextCodec == CodecOps(1) \/ Tick(QuarterHour)

SpecCodec == Init /\ [][NextCodec]_vars

\* C15: decoding a token with the secret and algorithm it was created with
\* returns the claim map with iat (the creation time) and exp (the creation
\* time plus ttl) when called before exp, and None when called after exp.
C15_CodecRoundTrip ==
    \A r \in Slots :
        (/\ Done(r, "decode_token")
         /\ loc[r].secret_key = loc[r].issued.secret_key
         /\ loc[r].algorithm = loc[r].issued.algorithm)
            => LET i == loc[r].issued
                   exp == i.created + i.expires_delta
               IN  /\ now < exp =>
                          loc[r].payload =
                              {Updated(i.data, [exp |-> exp, iat |-> i.created])}
                   /\ now > exp => loc[r].payload = {}

\* C16: decoding a token with a secret other than the one it was signed
\* with, or with an algorithm other than the one it was signed with, returns
\* None and does not raise, for HS256, HS384 and HS512.
C16_WrongSecretOrAlgorithmIsNone ==
    \A r \in Slots :
        (/\ Done(r, "decode_token")
         /\ \/ loc[r].secret_key # loc[r].issued.secret_key
            \/ loc[r].algorithm # loc[r].issued.algorithm)
            => /\ loc[r].payload = {}
               /\ Status(r) = "ok"

C16_Witness ==
    /\ Done(1, "decode_token")
    /\ loc[1].issued.algorithm = "HS512"
    /\ loc[1].algorithm = "HS512"
    /\ loc[1].secret_key # loc[1].issued.secret_key
    /\ now > loc[1].issued.created
    /\ now < loc[1].issued.access_token.claims.exp
    /\ loc[1].payload = {}

\* ---------------------------------------- project credentials, serial
\* an initial project and the first project created later
TargetProjects == {1, Cardinality(InitProjects) + 1}
ProjectUpdates ==
    { [is_active |-> FALSE], [is_active |-> TRUE],
      [jwt_algorithm |-> "HS512"], [jwt_expiration_minutes |-> QuarterHour] }
ProjectNames == {<<"P", "1">>, <<"n", "e", "w">>}
HeldApiKeys == {c.value : c \in {d \in tokens : d.kind = "api_key"}}
HeldClientSecrets == {c \in tokens : c.kind = "client_secret"}

ProjectOps(r) ==
    \/ \E n \in ProjectNames : ProjectCreate(r, n, "schema")
    \/ \E a \in {"HS256", "HS512"} :
           AdminCreateProject(r, <<"P", "1", " ">>, "discriminator", a,
                              AccessTokenExpireMinutes)
    \/ \E p \in TargetProjects : RegenerateApiKey(r, p)
    \/ \E p \in TargetProjects : RegenerateClientSecret(r, p)
    \/ \E p \in TargetProjects, d \in ProjectUpdates : ProjectUpdate(r, p, d)
    \/ \E k \in HeldApiKeys \cup {<<"k", "1">>, <<"k", "0">>} : GetProjectByApiKey(r, k)
    \/ \E c \in HeldClientSecrets : GetProjectByClientCredentials(r, c.client_id, c.value)
    \/ \E x \in {<<"x", "1">>, <<"x", "2">>} :
           GetProjectByClientCredentials(r, <<"c", "1">>, x)
    \/ Return(r)

NextProject == ProjectOps(1)

SpecProject == Init /\ [][NextProject]_vars

\* C17: get_project_by_api_key returns a project only if the key verifies
\* against that project's api_key_hash and the project is active; it answers
\* Unauthorized when no project's digest matches the key or the matching
\* project is inactive; a key issued for one project never resolves to
\* another project.
C17_ApiKeyResolvesOwnActiveProject ==
    \A r \in Slots :
        Done(r, "get_project_by_api_key") =>
            LET matching == {p \in projects :
                                verify_secret(loc[r].api_key, p.api_key_hash)}
            IN  /\ \A p \in loc[r].project :
                       /\ p \in matching
                       /\ p.is_active
                       /\ Status(r) = "ok"
                       /\ \A c \in tokens :
                              (c.kind = "api_key" /\ c.value = loc[r].api_key)
                                  => c.project_id = p.id
                /\ (matching = {} \/ \E p \in matching : ~p.is_active)
                       => /\ loc[r].project = {}
                          /\ Status(r) = "UnauthorizedError"

C17_Witness ==
    /\ Done(1, "get_project_by_api_key")
    /\ loc[1].project # {}
    /\ The(loc[1].project).id > Cardinality(InitProjects)
    /\ \E c \in tokens : c.kind = "api_key" /\ c.value = loc[1].api_key
    /\ \E p \in projects : ~p.is_active

\* the credential is the last one of its kind issued for its project
Latest(c) ==
    \A d \in tokens :
        (d.kind = c.kind /\ d.project_id = c.project_id) => d.issue <= c.issue

\* C18: the api_key last issued for an active project by create or
\* regenerate_api_key resolves to that project through
\* get_project_by_api_key, and the client_secret last issued resolves to it
\* through get_project_by_client_credentials; a value issued earlier no
\* longer resolves.
C18_IssuedCredentialsVerify ==
    \A r \in Slots :
        /\ Done(r, "get_project_by_api_key") =>
               \A c \in tokens :
                   (c.kind = "api_key" /\ c.value = loc[r].api_key) =>
                       /\ (Latest(c) /\ \E p \in projects :
                                            p.id = c.project_id /\ p.is_active)
                              => \E p \in loc[r].project : p.id = c.project_id
                       /\ ~Latest(c) => loc[r].project = {}
        /\ Done(r, "get_project_by_client_credentials") =>
               \A c \in tokens :
                   (/\ c.kind = "client_secret"
                    /\ c.value = loc[r].client_secret
                    /\ c.client_id = loc[r].client_id) =>
                       /\ (Latest(c) /\ \E p \in projects :
                                            p.id = c.project_id /\ p.is_active)
                              => \E p \in loc[r].project : p.id = c.project_id
                       /\ ~Latest(c) => loc[r].project = {}

\* C19: no step changes the jwt_secret of a project, and a token signed
\* with a project's secret still decodes with the project's secret after
\* the step when the step leaves the project's algorithm unchanged.
C19_JwtSecretImmutable ==
    [][\A p \in projects : \A q \in projects' :
          q.id = p.id =>
              /\ q.jwt_secret = p.jwt_secret
              /\ q.jwt_algorithm = p.jwt_algorithm =>
                     decode_token(create_access_token([sub |-> "u1"], p.jwt_secret,
                                                      p.jwt_algorithm, QuarterHour),
                                  q.jwt_secret, q.jwt_algorithm) # {}]_vars

C19_Witness ==
    \E p \in projects :
        /\ p.id = 1
        /\ p.jwt_secret = <<"s", "1">>
        /\ p.api_key_hash # hash_secret(<<"k", "1">>)
        /\ p.client_secret_hash # hash_secret(<<"x", "1">>)
        /\ p.jwt_algorithm = "HS512"

\* ------------------------------------------ tenant creation, two requests
TenantNames == {<<"A", "c">>, <<"a", " ", "b">>, <<"A", "-", "b">>}
\* an initial project of each tenant strategy, and an id no project has
TenantProjects == {1, 2, 0}

TenantOps(r) ==
    \/ \E p \in TenantProjects, n \in TenantNames : TenantCreateBegin(r, p, n)
    \/ TenantCreateCommit(r)
    \/ \E p \in TenantProjects, n \in TenantNames \cup {<<" ", "A", "c", " ">>} :
           AdminCreateTenantBegin(r, p, n)
    \/ AdminCreateTenantCommit(r)
    \/ Return(r)

NextTenant == \E r \in Slots : TenantOps(r)

SpecTenant == Init /\ [][NextTenant]_vars

HexChars == {"0", "1", "2", "3", "4", "5", "6", "7", "8", "9",
             "a", "b", "c", "d", "e", "f"}

\* slug is '<derived>-<8 hex chars>'
IsSuffixedSlug(slug, derived) ==
    /\ Len(slug) = Len(derived) + 9
    /\ SubSeq(slug, 1, Len(derived)) = derived
    /\ slug[Len(derived) + 1] = "-"
    /\ \A i \in (Len(derived) + 2)..Len(slug) : slug[i] \in HexChars

CreatedTenant(r) == pc[r] = "done" /\ loc[r].op \in {"tenant_create", "admin_create_tenant"}

\* C20: under any interleaving of tenant creations no two tenants of one
\* project share a slug; a creation that finds its derived slug taken in the
\* project ends with a new tenant whose slug is the derived slug, "-" and
\* eight hexadecimal characters, the tenant that held the slug being still
\* there unchanged; and no step removes or changes a tenant row.
C20_TenantSlugsUnique ==
    /\ [](\A t1, t2 \in tenants :
            (t1.project_id = t2.project_id /\ t1.slug = t2.slug) => t1 = t2)
    /\ [](\A r \in Slots :
            (CreatedTenant(r) /\ loc[r].existing # {}) =>
                /\ loc[r].resp \in {Ok, Redirect}
                /\ loc[r].existing \subseteq tenants
                /\ \E t \in tenants \ loc[r].existing :
                       /\ t.id = loc[r].tenant_id
                       /\ t.project_id = loc[r].project_id
                       /\ IsSuffixedSlug(t.slug, slugify(loc[r].name)))
    /\ [][tenants \subseteq tenants']_vars

\* One request found "a-b" taken and got its suffixed tenant, while the
\* other lost a race for a free slug to a concurrent creation.
C20_Witness ==
    /\ CreatedTenant(1) /\ loc[1].existing # {} /\ loc[1].resp = Ok
    /\ \E t \in tenants : t.id = loc[1].tenant_id /\ IsSuffixedSlug(t.slug, <<"a", "-", "b">>)
    /\ CreatedTenant(2) /\ loc[2].resp = IntegrityError

\* ------------------------------- tenant strategy of a project with tenants
Strategies == {"schema", "discriminator"}

StrategyOps(r) ==
    \/ \E p \in TenantProjects, n \in TenantNames : TenantCreateBegin(r, p, n)
    \/ TenantCreateCommit(r)
    \/ \E p \in TenantProjects, s \in Strategies :
           ProjectUpdate(r, p, [tenant_strategy |-> s])
    \/ Return(r)

NextStrategy == StrategyOps(1)

SpecStrategy == Init /\ [][NextStrategy]_vars

\* C21: in every reachable state a tenant has a schema_name if and only if
\* the tenant_strategy of its owning project is "schema", after tenant creation
\* and after any later ProjectService.update of the project.
C21_SchemaNameIffSchemaStrategy ==
    \A t \in tenants : \A p \in projects :
        p.id = t.project_id => (t.schema_name # NoStr <=> p.tenant_strategy = "schema")

\* exceptions of the store that reach the client as an unhandled error
StoreExceptions == {"IntegrityError", "StaleDataError", "MultipleResultsFound"}

\* C22: when two concurrent requests race on a uniqueness constraint (two
\* MembershipService.create for one (user, tenant), two accept_invitation for
\* one token, two register for one email, two tenant creations with one name
\* in a project), one row is persisted and the losing request ends with a
\* domain-level error, never with an unhandled exception of the store.
C22_RaceLoserGetsDomainError ==
    /\ \A m1, m2 \in memberships :
           (m1.user_id = m2.user_id /\ m1.tenant_id = m2.tenant_id) => m1 = m2
    /\ \A u1, u2 \in users : u1.email = u2.email => u1 = u2
    /\ \A t1, t2 \in tenants :
           (t1.project_id = t2.project_id /\ t1.slug = t2.slug) => t1 = t2
    /\ \A r \in Slots :
           (/\ pc[r] = "done"
            /\ loc[r].op \in {"membership_create", "accept_invitation", "register",
                              "tenant_create", "admin_create_tenant"})
             => Status(r) \notin StoreExceptions

\* a login_tenant or refresh_token call that returned a token pair
Minted(r) ==
    /\ pc[r] = "done"
    /\ loc[r].op \in {"login_tenant", "refresh_token"}
    /\ loc[r].out # {}

\* the tenant a minting call was made for
MintTenant(r) ==
    IF loc[r].op = "login_tenant" THEN loc[r].tenant_id
    ELSE UUID(loc[r].refresh_token.claims.tenant_id)

AccessClaimNames == {"sub", "email", "tenant_id", "project_id", "roles", "iat", "exp"}

\* C23: both tokens minted by login_tenant and by refresh_token are signed
\* with the jwt_secret and jwt_algorithm of the tenant's owning project and
\* carry sub = user id, email, tenant_id, project_id = the owning project and
\* roles = the membership's roles at mint time; the access token's claims are
\* exactly sub, email, tenant_id, project_id, roles, iat, exp and the refresh
\* token's are the same plus type = "refresh".
C23_MintedClaims ==
    \A r \in Slots :
        Minted(r) =>
            LET pair == The(loc[r].out)
                both == {pair.access_token, pair.refresh_token}
            IN  /\ \E t \in tenants, p \in projects, u \in users, m \in memberships :
                       /\ t.id = MintTenant(r) /\ p.id = t.project_id
                       /\ m.user_id = u.id /\ m.tenant_id = t.id
                       /\ loc[r].op = "refresh_token"
                            => u.id = UUID(loc[r].refresh_token.claims.sub)
                       /\ \A tok \in both :
                              /\ tok.key = p.jwt_secret
                              /\ tok.alg = p.jwt_algorithm
                              /\ tok.claims.sub = UuidStr(u.id)
                              /\ tok.claims.email = u.email
                              /\ tok.claims.tenant_id = UuidStr(t.id)
                              /\ tok.claims.project_id = UuidStr(p.id)
                              /\ tok.claims.roles = m.roles
                /\ DOMAIN pair.access_token.claims = AccessClaimNames
                /\ DOMAIN pair.refresh_token.claims = AccessClaimNames \cup {"type"}
                /\ pair.refresh_token.claims.type = "refresh"

\* ----------------- token lifetimes of a project made in the admin panel
\* the project the panel creates first, and the tenant created first
PanelProject == Cardinality(InitProjects) + 1
PanelTenant == Cardinality(InitTenants) + 1
HeldPairs == {t \in tokens : "refresh_token" \in DOMAIN t}

LifetimeOps(r) ==
    \/ \E e \in Lifetimes :
           AdminCreateProject(r, <<"n", "e", "w">>, "discriminator", "HS256", e)
    \/ AdminCreateTenantBegin(r, PanelProject, <<"A", "c">>)
    \/ AdminCreateTenantCommit(r)
    \/ \E n \in FullNames : RegisterBegin(r, EmailAB, Pw1, n)
    \/ RegisterCommit(r)
    \/ \E t \in {1, PanelTenant} : MembershipCreateBegin(r, 1, t, <<"admin">>)
    \/ MembershipCreateCommit(r)
    \/ ProjectUpdate(r, PanelProject, [jwt_expiration_minutes |-> QuarterHour])
    \/ \E p \in Passwords, t \in {1, PanelTenant} : LoginTenant(r, EmailAB, p, t)
    \/ \E t \in HeldPairs : RefreshToken(r, t.refresh_token, NoStr)
    \/ Return(r)

NextLifetime == LifetimeOps(1) \/ Tick(QuarterHour)

SpecLifetime == Init /\ [][NextLifetime]_vars

SecondsPerMinute == 60

\* C24: for every token pair issued, the access token's exp - iat equals the
\* owning project's jwt_expiration_minutes, expires_in reports that lifetime
\* in seconds, and the refresh token's exp - iat is seven days whatever the
\* project's configuration.
C24_TokenLifetimes ==
    \A r \in Slots :
        Minted(r) =>
            LET pair == The(loc[r].out)
                access == pair.access_token.claims
                refresh == pair.refresh_token.claims
            IN  /\ \E t \in tenants, p \in projects :
                       /\ t.id = MintTenant(r) /\ p.id = t.project_id
                       /\ access.exp - access.iat = p.jwt_expiration_minutes
                       /\ pair.expires_in = p.jwt_expiration_minutes * SecondsPerMinute
                /\ (access.exp - access.iat) * SecondsPerMinute = pair.expires_in
                /\ refresh.exp - refresh.iat = RefreshTokenDays * MinutesPerDay

\* C25: login_tenant called with valid credentials and a tenant_id that
\* refers to no existing tenant fails with NotFound (tenant), distinct from
\* the Unauthorized outcome of a missing or inactive membership.
C25_UnknownTenantIsNotFound ==
    \A r \in Slots :
        (/\ Done(r, "login_tenant")
         /\ ~IsMany(UsersByEmail(loc[r].email))
         /\ _verify_credentials(loc[r].email, loc[r].password) # {}
         /\ TenantsById(loc[r].tenant_id) = {})
          => loc[r].resp = NotFoundError("Tenant not found")

AcceptCall(r) == pc[r] = "idle" /\ pc'[r] # "idle" /\ loc'[r].op = "accept_invitation"
AcceptRefused(r, resp) == pc'[r] = "done" /\ loc'[r].resp = resp
AcceptBadRequest(r) == pc'[r] = "done" /\ loc'[r].resp.status = "BadRequestError"

\* C26: accept_invitation fails NotFound for an unknown token (the token of
\* an invitation removed by delete_invitation included), BadRequest for a
\* used invitation, BadRequest for an expired one, and BadRequest when no
\* user exists for the invitation's email and password or full_name is
\* missing; whenever it fails, users, memberships and invitations are as
\* they were before the call.
C26_AcceptFailures ==
    [][/\ \A r \in Slots :
            AcceptCall(r) =>
                LET found == get_invitation_by_token(loc'[r].token)
                IN  IF IsNone(found)
                    THEN AcceptRefused(r, NotFoundError("Invitation not found"))
                    ELSE IF is_used(The(found)) \/ is_expired(The(found))
                    THEN AcceptBadRequest(r)
                    ELSE (/\ UsersWithEmail(The(found).email) = {}
                          /\ (loc'[r].password = NoStr \/ loc'[r].full_name = NoStr))
                           => AcceptBadRequest(r)
       /\ \A r \in Slots :
            (/\ pc[r] # "done" /\ pc'[r] = "done"
             /\ loc'[r].op = "accept_invitation"
             /\ loc'[r].resp.status # "ok")
              => /\ users' = users
                 /\ memberships' = memberships
                 /\ invitations' = invitations
      ]_vars

\* -------------------------------- acceptance by users who already exist
Pw2 == <<"p", "2">>

AcceptOps(r) ==
    \/ \E e \in {EmailAB, <<"a", "_">>} : RegisterBegin(r, e, Pw1, <<"n">>)
    \/ RegisterCommit(r)
    \/ \E e \in Emails : AdminCreateInvitation(r, 1, 1, e, <<"admin">>, 1)
    \/ \E tk \in InvitationIds, p \in {Pw2, NoStr}, n \in {<<"m">>, NoStr} :
           AcceptInvitationBegin(r, tk, p, n)
    \/ AcceptInvitationCommit(r)
    \/ \E u \in UserIds, a \in BOOLEAN : UserUpdate(r, u, a)
    \/ Return(r)

NextAccept == AcceptOps(1) \/ Tick(MinutesPerHour)

SpecAccept == Init /\ [][NextAccept]_vars

\* C27: when a user already exists for the invitation's email, accept_invitation
\* reuses that user and changes none of its fields, even if the call supplies
\* a password or a full_name; it only adds the membership (for that user, on
\* the invitation's tenant) and sets the invitation's used_at.
C27_ExistingUserReusedUnchanged ==
    [][/\ \A r \in Slots :
            (AcceptCall(r) /\ pc'[r] = "commit"
               /\ UsersWithEmail(The(loc'[r].invitation).email) # {})
              => /\ users' = users
                 /\ loc'[r].new_user = {}
                 /\ loc'[r].user # {}
                 /\ loc'[r].user \subseteq UsersWithEmail(The(loc'[r].invitation).email)
       /\ \A r \in Slots :
            (/\ pc[r] = "commit" /\ loc[r].op = "accept_invitation"
             /\ loc[r].user # {}
             /\ pc'[r] = "done" /\ loc'[r].resp = Ok)
              => LET inv == The(loc[r].invitation)
                 IN  /\ users' = users
                     /\ \E m \in memberships' \ memberships :
                            /\ memberships' = memberships \cup {m}
                            /\ m.user_id = The(loc[r].user).id
                            /\ m.tenant_id = inv.tenant_id
                     /\ invitations' = (invitations \ {inv}) \cup
                                           {[inv EXCEPT !.used_at = now]}
      ]_vars

\* an existing user accepted with another password and another full name
\* than their own, and kept their own
C27_Witness ==
    /\ Done(1, "accept_invitation") /\ loc[1].resp = Ok
    /\ loc[1].password = Pw2 /\ loc[1].full_name = <<"m">>
    /\ \E u \in loc[1].user :
           /\ u \in users
           /\ u.password_hash = hash_password(Pw1)
           /\ u.full_name = <<"n">>
           /\ \E m \in memberships : m.user_id = u.id

\* ------------------------------------------------- removal of members
RemoveOps(r) ==
    \/ \E e \in {EmailAB, EmailCB} : RegisterBegin(r, e, Pw1, <<"n">>)
    \/ RegisterCommit(r)
    \/ \E u \in UserIds, t \in {1, 2} : MembershipCreateBegin(r, u, t, <<>>)
    \/ MembershipCreateCommit(r)
    \/ \E t \in {1, 2} : AdminCreateInvitation(r, 1, t, EmailAB, <<"admin">>, 1)
    \/ \E m \in MembershipIds \cup {MaxMemberships + 1} : MembershipDelete(r, m)
    \/ \E p \in {1, 2}, t \in {1, 2}, u \in UserIds : RemoveMember(r, p, t, u)
    \/ \E t \in {1, 2}, u \in UserIds : AdminDeleteMember(r, 1, t, u)
    \/ Return(r)

NextRemove == RemoveOps(1)

SpecRemove == Init /\ [][NextRemove]_vars

RemovalOps == {"membership_delete", "remove_member", "admin_delete_member"}

\* the memberships a removal request names
Targeted(l) ==
    IF l.op = "membership_delete" THEN MembershipsById(l.membership_id)
    ELSE get_by_user_and_tenant(l.user_id, l.tenant_id)

\* C28: removing a membership through MembershipService.delete, the
\* remove_member route or the panel's delete_member route deletes that
\* (user, tenant) membership row only: the users, the user's other
\* memberships, the tenants and all invitations are unchanged.
C28_RemovalDeletesOnlyTheMembership ==
    [][\A r \in Slots :
           (pc[r] = "idle" /\ pc'[r] = "done" /\ loc'[r].op \in RemovalOps)
             => /\ users' = users
                /\ tenants' = tenants
                /\ invitations' = invitations
                /\ memberships' \subseteq memberships
                /\ memberships \ memberships' \subseteq Targeted(loc'[r])
                /\ Cardinality(memberships \ memberships') <= 1
                /\ loc'[r].resp \in {Ok, Redirect} /\ Targeted(loc'[r]) # {}
                     => memberships' = memberships \ Targeted(loc'[r])
      ]_vars

\* a user with two memberships lost one of them and kept the other
C28_Witness ==
    \E r \in Slots :
        /\ pc[r] = "done" /\ loc[r].op \in {"remove_member", "admin_delete_member"}
        /\ get_by_user_and_tenant(loc[r].user_id, loc[r].tenant_id) = {}
        /\ \E m \in memberships : m.user_id = loc[r].user_id
        /\ \E i \in invitations : i.tenant_id = loc[r].tenant_id
        /\ seq.membership = MaxMemberships

\* ---------------------------- refresh across projects, requests one at a time
\* what the holder of a project's API key knows after GET /auth/project
HeldProjectInfo == {t \in tokens : "kind" \in DOMAIN t /\ t.kind = "project_info"}

\* A refresh-typed token the holder of a project's jwt_secret signs itself,
\* naming any user and tenant.
SelfSigned(info, user_id, tenant_id) ==
    create_refresh_token([sub |-> UuidStr(user_id), email |-> EmailAB,
                          tenant_id |-> UuidStr(tenant_id),
                          project_id |-> UuidStr(info.project_id),
                          roles |-> <<"admin">>],
                         info.jwt_secret, info.jwt_algorithm)

IsolationOps(r) ==
    \/ RegisterBegin(r, EmailAB, Pw1, <<"n">>)
    \/ RegisterCommit(r)
    \/ \E t \in {1, 2} : MembershipCreateBegin(r, 1, t, <<"member">>)
    \/ MembershipCreateCommit(r)
    \/ \E k \in ApiKeys \ {NoStr} : GetProjectInfo(r, k)
    \/ \E t \in {1, 2} : LoginTenant(r, EmailAB, Pw1, t)
    \/ \E t \in HeldPairs, k \in ApiKeys : RefreshToken(r, t.refresh_token, k)
    \/ \E i \in HeldProjectInfo, t \in {1, 2}, k \in ApiKeys :
           RefreshToken(r, SelfSigned(i, 1, t), k)
    \/ Return(r)

NextIsolation == IsolationOps(1) \/ Tick(QuarterHour)

SpecIsolation == Init /\ [][NextIsolation]_vars

\* C29: refresh_token issues tokens for tenant T only when the presented
\* refresh token verifies under the jwt_secret (and algorithm) of T's owning
\* project; a refresh-typed token signed with the secret of project A that
\* names a user and a tenant of another project B never yields a token pair
\* signed with B's secret.
C29_RefreshStaysInsideTheProject ==
    \A r \in Slots :
        (Minted(r) /\ loc[r].op = "refresh_token") =>
            \A t \in tenants : \A p \in projects :
                (t.id = MintTenant(r) /\ p.id = t.project_id) =>
                    /\ loc[r].refresh_token.key = p.jwt_secret
                    /\ loc[r].refresh_token.alg = p.jwt_algorithm
                    /\ The(loc[r].out).access_token.key = loc[r].refresh_token.key

\* ------------------------- tenant rows and schemas, two concurrent requests
SchemaOps(r) ==
    \/ \E n \in {<<"a", " ", "b">>, <<"A", "c">>} : TenantCreateBegin(r, 1, n)
    \/ TenantCreateCommit(r)
    \/ \E t \in 1..(Cardinality(InitTenants) + MaxTenants) : TenantDeleteBegin(r, t)
    \/ TenantDeleteCommit(r)
    \/ Return(r)

NextSchema == \E r \in Slots : SchemaOps(r)

SpecSchema == Init /\ [][NextSchema]_vars

\* no creation or deletion is between its schema statement and its commit
NoneInFlight == \A r \in Slots : pc[r] # "commit"

\* C30: tenant rows and tenant schemas stay in step, also after a failure in
\* the middle of TenantService.create or TenantService.delete: a schema exists
\* only if a tenant row carries its name, a tenant row carries a schema_name
\* only if that schema has not been dropped, and two distinct tenants never
\* share a schema_name.  (Stated for the states where no request is between
\* its schema statement and its commit.)
C30_RowsAndSchemasInStep ==
    NoneInFlight =>
        /\ \A s \in schemas : \E t \in tenants : t.schema_name = s
        /\ \A t \in tenants : t.schema_name # NoStr => t.schema_name \in schemas
        /\ \A t1, t2 \in tenants :
               (t1.schema_name # NoStr /\ t1.schema_name = t2.schema_name) => t1 = t2

====
